---- MODULE Spec2Model ----
(***************************************************************************)
(* Kornea OCR: the OCR route's full-page attribution (processDetections),  *)
(* the batch loop of the OCR route, the region editor's combineRegions /   *)
(* parseRegionResults, and the v1 page's field parser (parseCorneaData).   *)
(*                                                                         *)
(* JavaScript strings are TLA+ strings; a character is a string of length  *)
(* one, read with SubSeq.  Two glyphs of the source that are not ASCII are *)
(* written with ASCII stand-ins that occur nowhere else in the patterns:   *)
(* the degree sign is "@" and the diamond of "Thinnest Local" is "#".      *)
(***************************************************************************)
EXTENDS Integers, Sequences, FiniteSets, TLC

VARIABLES
    text,          \* parseCorneaData: argument text
    fields,        \* parseCorneaData: argument fields
    data,          \* parseCorneaData: the returned record, as key/value pairs in insertion order
    pcParse,       \* "idle" | "call" | "done"
    rows,          \* v1 page: the results state, one row per file
    pcPage,        \* v1 page, processFiles: "idle" | "fetch" | "shown" | "failed"
    detections,    \* single-file OCR request: result.textAnnotations of the detector
    imageType,     \* single-file OCR request: the form's imageType
    response,      \* single-file OCR request: the JSON response
    pcSingle,      \* "idle" | "call" | "done"
    images,        \* batch OCR request: body.images, each with the annotations the detector finds
    batchI,        \* batch OCR request: the loop variable i
    responses,     \* batch OCR request: the textAnnotations the detector returned, call after call
    calls,         \* batch OCR request: the detector calls made, each the ids of the images of its requests
    allResults,    \* batch OCR request: allResults
    batchResponse, \* batch OCR request: the JSON response
    pcBatch,       \* "idle" | "call" | "loop" | "done"
    rects,         \* region editor: the rectangles passed to combineRegions
    natural,       \* region editor: naturalWidth and naturalHeight of the file's image
    combined,      \* region editor: what combineRegions returned
    textBlocks,    \* region editor: data.textBlocks of the OCR response for the composite
    parsed,        \* region editor: what parseRegionResults returned
    pcRegion,      \* "idle" | "combine" | "ocr" | "parse" | "done" | "failed"
    editor,        \* region editor: isDrawing, drawStart, currentRect, draggedId and the ids made so far
    jar,           \* sign-in: the browser's auth-token cookie
    now,           \* sign-in: the time, in days
    lastRequest,   \* sign-in: the last request made
    lastResponse   \* sign-in: the answer to it

parseVars == <<text, fields, data, pcParse, rows, pcPage>>
singleVars == <<detections, imageType, response, pcSingle>>
batchVars == <<images, batchI, responses, calls, allResults, batchResponse, pcBatch>>
regionVars == <<rects, natural, combined, textBlocks, parsed, pcRegion, editor>>
authVars == <<jar, now, lastRequest, lastResponse>>

----------------------------------------------------------------------------
(* String primitives of the JavaScript runtime the code calls.             *)

CharAt(s, i) == SubSeq(s, i, i)

UpperChars == "ABCDEFGHIJKLMNOPQRSTUVWXYZ"
LowerChars == "abcdefghijklmnopqrstuvwxyz"

LowerOf ==
    [c \in {CharAt(UpperChars, i) : i \in 1..Len(UpperChars)} |->
        CharAt(LowerChars, CHOOSE i \in 1..Len(UpperChars) : CharAt(UpperChars, i) = c)]

LowerChar(c) == IF c \in DOMAIN LowerOf THEN LowerOf[c] ELSE c

\* halved rather than peeled, which keeps the evaluation shallow on long texts
RECURSIVE toLowerCase(_)
toLowerCase(s) ==
    IF Len(s) = 0 THEN ""
    ELSE IF Len(s) = 1 THEN LowerChar(s)
    ELSE LET h == Len(s) \div 2
         IN toLowerCase(SubSeq(s, 1, h)) \o toLowerCase(SubSeq(s, h + 1, Len(s)))

\* the characters \s and trim() treat as white space, among those the inputs use
WhiteSpace == {" ", "\n", "\t", "\r"}
Digits == {"0", "1", "2", "3", "4", "5", "6", "7", "8", "9"}

RECURSIVE trimStart(_)
trimStart(s) ==
    IF s # "" /\ Head(s) \in WhiteSpace THEN trimStart(Tail(s)) ELSE s

RECURSIVE trimEnd(_)
trimEnd(s) ==
    IF s # "" /\ CharAt(s, Len(s)) \in WhiteSpace
    THEN trimEnd(SubSeq(s, 1, Len(s) - 1)) ELSE s

trim(s) == trimEnd(trimStart(s))

\* s.indexOf(sub), 1-based; 0 when sub does not occur
indexOf(s, sub) ==
    LET hits == {i \in 1..(Len(s) - Len(sub) + 1) : SubSeq(s, i, i + Len(sub) - 1) = sub}
    IN IF hits = {} THEN 0 ELSE CHOOSE i \in hits : \A j \in hits : i <= j

includes(s, sub) == sub = "" \/ indexOf(s, sub) # 0

\* s.split(sep) for a one-character separator: always at least one piece
RECURSIVE split(_, _)
split(s, sep) ==
    LET i == indexOf(s, sep)
    IN IF i = 0 THEN <<s>>
       ELSE <<SubSeq(s, 1, i - 1)>> \o split(SubSeq(s, i + 1, Len(s)), sep)

RECURSIVE join(_, _)
join(parts, sep) ==
    IF parts = <<>> THEN ""
    ELSE IF Len(parts) = 1 THEN parts[1]
    ELSE parts[1] \o sep \o join(Tail(parts), sep)

----------------------------------------------------------------------------
(* Regular expressions.  A pattern is a sequence of items, matched by      *)
(* backtracking as RegExp.prototype.exec does: leftmost start, each        *)
(* quantifier greedy, giving back one character at a time.                 *)
(*   kind "lit": the literal lit (in lower case: every literal is used     *)
(*               under flag i or has no letter), optional when             *)
(*               opt; kind "cls": min..max characters (max = -1: no limit) *)
(*               of the class set, or of its complement when neg.          *)
(* grp is the number of the capture group the item is, 0 for none.  A       *)
(* group that takes no part in the match reads as "" (undefined in the     *)
(* source, which only tests such a value for truthiness).                  *)

Lit(w) == [kind |-> "lit", lit |-> w, opt |-> FALSE, set |-> {}, neg |-> FALSE, min |-> 1, max |-> 1, grp |-> 0]
OptGroup(w, g) == [kind |-> "lit", lit |-> w, opt |-> TRUE, set |-> {}, neg |-> FALSE, min |-> 0, max |-> 1, grp |-> g]
OneOrMore(S) == [kind |-> "cls", lit |-> "", opt |-> FALSE, set |-> S, neg |-> FALSE, min |-> 1, max |-> -1, grp |-> 0]
ZeroOrMore(S) == [kind |-> "cls", lit |-> "", opt |-> FALSE, set |-> S, neg |-> FALSE, min |-> 0, max |-> -1, grp |-> 0]
ZeroOrMoreNot(S) == [kind |-> "cls", lit |-> "", opt |-> FALSE, set |-> S, neg |-> TRUE, min |-> 0, max |-> -1, grp |-> 0]
ZeroOrOne(S) == [kind |-> "cls", lit |-> "", opt |-> FALSE, set |-> S, neg |-> FALSE, min |-> 0, max |-> 1, grp |-> 0]
Capture(S, g) == [kind |-> "cls", lit |-> "", opt |-> FALSE, set |-> S, neg |-> FALSE, min |-> 1, max |-> -1, grp |-> g]

NoMatch == [ok |-> FALSE, index |-> 0, end |-> 0, caps |-> <<"", "">>]

InClass(c, it) == (c \in it.set) # it.neg

\* the longest run of class characters from pos, at most it.max
RunLen(t, pos, it) ==
    LET limit == IF it.max # -1 /\ it.max < Len(t) - pos + 1 THEN it.max ELSE Len(t) - pos + 1
        stops == {n \in 0..limit : n = limit \/ ~InClass(CharAt(t, pos + n), it)}
    IN IF limit <= 0 THEN 0 ELSE CHOOSE n \in stops : \A m \in stops : n <= m

SetCap(m, g, from, to) ==
    IF g = 0 \/ ~m.ok THEN m
    ELSE [m EXCEPT !.caps = [m.caps EXCEPT ![g] = <<from, to>>]]

\* under flag i the text is compared in lower case
Fold(s, ci) == IF ci THEN toLowerCase(s) ELSE s

\* the numbers of characters item it can take at pos: the literal or, when it
\* is optional, nothing; of a class, from min up to its longest run
Lengths(t, pos, it) ==
    IF it.kind = "lit"
    THEN {n \in {Len(it.lit)} : pos + n - 1 <= Len(t) /\ SubSeq(t, pos, pos + n - 1) = it.lit}
         \cup {n \in {0} : it.opt}
    ELSE it.min..RunLen(t, pos, it)

\* greedy with backtracking: the largest number of characters with which the
\* rest of the pattern matches; rest[n] is the match of the rest after n
Longest(it, pos, rest) ==
    LET good == {n \in DOMAIN rest : rest[n].ok}
        n == CHOOSE n \in good : \A m \in good : n >= m
    IN IF good = {} THEN [ok |-> FALSE]
       ELSE IF n = 0 THEN rest[n]
       ELSE SetCap(rest[n], it.grp, pos, pos + n - 1)

\* items k.. of re against t from position pos; caps holds <<from, to>> pairs
RECURSIVE MatchFrom(_, _, _, _)
MatchFrom(t, pos, re, k) ==
    IF k > Len(re) THEN [ok |-> TRUE, end |-> pos, caps |-> <<<<1, 0>>, <<1, 0>>>>]
    ELSE Longest(re[k], pos, [n \in Lengths(t, pos, re[k]) |-> MatchFrom(t, pos + n, re, k + 1)])

\* the leftmost of the matches ms[i] from each position i of s
Leftmost(s, ms) ==
    LET starts == {i \in DOMAIN ms : ms[i].ok}
        start == CHOOSE i \in starts : \A j \in starts : i <= j
    IN IF starts = {} THEN NoMatch
       ELSE [ok |-> TRUE, index |-> start, end |-> ms[start].end,
             caps |-> [g \in 1..2 |-> SubSeq(s, ms[start].caps[g][1], ms[start].caps[g][2])]]

ExecOn(s, folded, re) ==
    Leftmost(s, [i \in 1..(Len(s) + 1) |-> MatchFrom(folded, i, re, 1)])

\* s.match(re) for a pattern without the g flag; ci is the i flag
Exec(s, re, ci) == ExecOn(s, Fold(s, ci), re)

\* re.test(s)
Test(s, re, ci) == Exec(s, re, ci).ok

----------------------------------------------------------------------------
(* parseCorneaData (v1 page).                                              *)

Sentinel == "-"

\* mutant: a record that lists a new key before the keys it already has
SetInFront(d, key, value) ==
    IF \E i \in 1..Len(d) : d[i].k = key
    THEN [i \in 1..Len(d) |-> IF d[i].k = key THEN [k |-> key, v |-> value] ELSE d[i]]
    ELSE <<[k |-> key, v |-> value]>> \o d

\* the record data: key/value pairs in insertion order; data[key] = value
Set(d, key, value) ==
    IF \E i \in 1..Len(d) : d[i].k = key
    THEN [i \in 1..Len(d) |-> IF d[i].k = key THEN [k |-> key, v |-> value] ELSE d[i]]
    ELSE Append(d, [k |-> key, v |-> value])

Keys(d) == [i \in 1..Len(d) |-> d[i].k]
HasKey(d, key) == \E i \in 1..Len(d) : d[i].k = key
Get(d, key) == d[CHOOSE i \in 1..Len(d) : d[i].k = key].v

\* Array.prototype.slice(a, b) and String.prototype.substring(a, b), 0-based, 0 <= a
slice(seq, a, b) == SubSeq(seq, a + 1, IF b < Len(seq) THEN b ELSE Len(seq))
substring(s, a, b) == SubSeq(s, a + 1, IF b < Len(s) THEN b ELSE Len(s))

\* text.split('\n').map(line => line.trim()).filter(line => line.length > 0)
nonEmptyLines(t) ==
    LET raw == split(t, "\n")
        trimmed == [i \in 1..Len(raw) |-> trim(raw[i])]
    IN SelectSeq(trimmed, LAMBDA l : Len(l) > 0)

Sep == {":"} \cup WhiteSpace
Num == Digits \cup {"."}
SignedNum == Num \cup {"-"}

\* /Cornea\s*Front|^Front$/i and /Cornea\s*Back|^Back$/i on one line
isFrontHeading(line) ==
    \/ Test(line, <<Lit("cornea"), ZeroOrMore(WhiteSpace), Lit("front")>>, TRUE)
    \/ toLowerCase(line) = "front"

isBackHeading(line) ==
    \/ Test(line, <<Lit("cornea"), ZeroOrMore(WhiteSpace), Lit("back")>>, TRUE)
    \/ toLowerCase(line) = "back"

\* lines.findIndex(...), 0-based, -1 when no line passes
frontIndexOf(lines) ==
    LET hits == {i \in 1..Len(lines) : isFrontHeading(lines[i])}
    IN IF hits = {} THEN -1 ELSE (CHOOSE i \in hits : \A j \in hits : i <= j) - 1

backIndexOf(lines) ==
    LET hits == {i \in 1..Len(lines) : isBackHeading(lines[i])}
    IN IF hits = {} THEN -1 ELSE (CHOOSE i \in hits : \A j \in hits : i <= j) - 1

\* mutant: without a heading the whole text is the front section only
sectionsAtFrontOnly(t, lines, frontIndex, backIndex) ==
    IF frontIndex # -1 /\ backIndex # -1 /\ backIndex > frontIndex
    THEN <<join(slice(lines, frontIndex, backIndex), " "),
           join(slice(lines, backIndex, Len(lines)), " ")>>
    ELSE IF frontIndex # -1 \/ backIndex # -1
    THEN <<join(slice(lines, 0, Len(lines) \div 2), " "),
           join(slice(lines, Len(lines) \div 2, Len(lines)), " ")>>
    ELSE <<t, "">>

\* the section split: <<frontText, backText>>
sectionsAt(t, lines, frontIndex, backIndex) ==
    IF frontIndex # -1 /\ backIndex # -1 /\ backIndex > frontIndex
    THEN <<join(slice(lines, frontIndex, backIndex), " "),
           join(slice(lines, backIndex, Len(lines)), " ")>>
    ELSE IF frontIndex # -1 \/ backIndex # -1
    THEN <<join(slice(lines, 0, Len(lines) \div 2), " "),
           join(slice(lines, Len(lines) \div 2, Len(lines)), " ")>>
    ELSE <<t, t>>

sectionsOf(t, lines) == sectionsAt(t, lines, frontIndexOf(lines), backIndexOf(lines))

sections(t) == sectionsOf(t, nonEmptyLines(t))

\* mutant: the split without the guard on the empty string
requestedFieldsOfUnguarded(f) ==
    LET parts == split(f, ",")
    IN [i \in 1..Len(parts) |-> toLowerCase(trim(parts[i]))]

\* fields ? fields.split(',').map(f => f.trim().toLowerCase()) : []
requestedFieldsOf(f) ==
    IF f = "" THEN <<>>
    ELSE LET parts == split(f, ",")
         IN [i \in 1..Len(parts) |-> toLowerCase(trim(parts[i]))]

\* the localized synonym of "all"
Tumu == "tümü"

extractAllOf(req) ==
    Len(req) = 0 \/ (\E i \in 1..Len(req) : req[i] = Tumu) \/ (\E i \in 1..Len(req) : req[i] = "all")

\* requestedFields.some(f => f.includes(w1) || f.includes(w2) ...)
someIncludes(req, words) ==
    \E i \in 1..Len(req) : \E w \in words : includes(req[i], w)

\* the condition of each group's if statement
GroupWords ==
    [radius |-> {"rh", "radius"}, k |-> {"k", "keratometry"}, axis |-> {"axis", "astig"},
     q |-> {"q"}, rper |-> {"rper", "rmin"}, pachy |-> {"pachy"},
     ac |-> {"ac", "depth", "pupil"}]

groupOn(req, g) == extractAllOf(req) \/ someIncludes(req, GroupWords[g])

\* mutant: the back-surface keratometry pattern without the minus sign
SignedLabelReUnsigned(label) == <<Lit(label), OneOrMore(Sep), Capture(Num, 1)>>

\* /<Label>[:\s]+([0-9.]+)/i and its back-surface form /<Label>[:\s]+([-0-9.]+)/i
LabelRe(label) == <<Lit(label), OneOrMore(Sep), Capture(Num, 1)>>
SignedLabelRe(label) == <<Lit(label), OneOrMore(Sep), Capture(SignedNum, 1)>>

\* /Axis[^\d]*(flat)?[:\s]*([0-9.]+)/i and /([0-9.]+)\s*°/
AxisRe == <<Lit("axis"), ZeroOrMoreNot(Digits), OptGroup("flat", 1), ZeroOrMore(Sep), Capture(Num, 2)>>
DegreeRe == <<Capture(Num, 1), ZeroOrMore(WhiteSpace), Lit("@")>>

\* /Q-val[^-\d]*([-0-9.]+)/i
QvalRe == <<Lit("q-val"), ZeroOrMoreNot(Digits \cup {"-"}), Capture(SignedNum, 1)>>

\* /Pupil Center[:\s]+[+]?([0-9.]+)/i, /Pachy Apex[:\s]+([0-9.]+)/i,
\* /Thinnest Local[:\s]+[◇]?\s*([0-9.]+)/i
PupilCenterRe == <<Lit("pupil center"), OneOrMore(Sep), ZeroOrOne({"+"}), Capture(Num, 1)>>
PachyApexRe == LabelRe("pachy apex")
ThinnestRe == <<Lit("thinnest local"), OneOrMore(Sep), ZeroOrOne({"#"}), ZeroOrMore(WhiteSpace), Capture(Num, 1)>>

\* /Depth/i, /([0-9]+\.[0-9]+)/
DepthRe == <<Lit("depth")>>
DecimalRe == <<OneOrMore(Digits), Lit("."), OneOrMore(Digits)>>

\* /Pupil\s+Dia[:\s.]+([0-9.]+)/i and /Pupil\s*Diameter[:\s]+([0-9.]+)/i
PupilDiaRe == <<Lit("pupil"), OneOrMore(WhiteSpace), Lit("dia"), OneOrMore(Sep \cup {"."}), Capture(Num, 1)>>
PupilDiameterRe == <<Lit("pupil"), ZeroOrMore(WhiteSpace), Lit("diameter"), OneOrMore(Sep), Capture(Num, 1)>>

\* the window (in characters, from the start of "Depth") searched for the colon
DepthWindow == 150

\* mutant: an empty string where nothing matches
extractValueEmptyOnMiss(t, pattern, groupIndex) ==
    LET match == Exec(t, pattern, TRUE)
    IN IF ~match.ok THEN "" ELSE trim(match.caps[groupIndex])

\* if (!match) return '-'; const value = match[groupIndex]; return value ? value.trim() : '-'
groupOrSentinel(match, groupIndex) ==
    IF ~match.ok THEN Sentinel
    ELSE IF match.caps[groupIndex] # "" THEN trim(match.caps[groupIndex])
    ELSE Sentinel

extractValue(t, pattern, groupIndex) == groupOrSentinel(Exec(t, pattern, TRUE), groupIndex)

extractValueWithNegative(t, pattern, groupIndex) == groupOrSentinel(Exec(t, pattern, TRUE), groupIndex)

\* first || second, of two match results
orElse(first, second) == IF first.ok THEN first ELSE second

\* axisMatch ? (axisMatch[2] || axisMatch[1] || '-') : '-'
axisOf(axisMatch) ==
    IF ~axisMatch.ok THEN Sentinel
    ELSE IF axisMatch.caps[2] # "" THEN axisMatch.caps[2]
    ELSE IF axisMatch.caps[1] # "" THEN axisMatch.caps[1]
    ELSE Sentinel

axisValue(t) == axisOf(orElse(Exec(t, AxisRe, TRUE), Exec(t, DegreeRe, FALSE)))

\* mutant: the number is searched from "Depth", not from the colon
acDepthValueNoColon(t) ==
    LET depthIndex == Exec(t, DepthRe, TRUE).index - 1
        afterDepth == substring(t, depthIndex, depthIndex + DepthWindow)
        numberMatch == Exec(afterDepth, DecimalRe, FALSE)
    IN IF depthIndex = -1 THEN Sentinel
       ELSE IF numberMatch.ok THEN SubSeq(afterDepth, numberMatch.index, numberMatch.end - 1)
       ELSE Sentinel

\* numberMatch ? numberMatch[1] : '-'
depthNumber(afterColon, numberMatch) ==
    IF numberMatch.ok THEN SubSeq(afterColon, numberMatch.index, numberMatch.end - 1)
    ELSE Sentinel

\* colonIndex is afterDepth.indexOf(':'), 0-based
depthAfterColon(afterDepth, colonIndex) ==
    IF colonIndex = -1 THEN Sentinel
    ELSE depthNumber(substring(afterDepth, colonIndex + 1, Len(afterDepth)),
                     Exec(substring(afterDepth, colonIndex + 1, Len(afterDepth)), DecimalRe, FALSE))

\* depthIndex is text.search(/Depth/i), 0-based
depthAfter(t, depthIndex) ==
    IF depthIndex = -1 THEN Sentinel
    ELSE depthAfterColon(substring(t, depthIndex, depthIndex + DepthWindow),
                         indexOf(substring(t, depthIndex, depthIndex + DepthWindow), ":") - 1)

acDepthValue(t) == depthAfter(t, Exec(t, DepthRe, TRUE).index - 1)

\* pupilDiaMatch ? pupilDiaMatch[1] : '-'
pupilDiaOf(pupilDiaMatch) == IF pupilDiaMatch.ok THEN pupilDiaMatch.caps[1] ELSE Sentinel

pupilDiaValue(t) ==
    pupilDiaOf(orElse(Exec(t, PupilDiaRe, TRUE), Exec(t, PupilDiameterRe, TRUE)))

\* the assignments data[key] = value of one if statement, in order
assignments(on, entries) == IF on THEN entries ELSE <<>>

RECURSIVE SetAll(_, _)
SetAll(d, entries) ==
    IF entries = <<>> THEN d
    ELSE SetAll(Set(d, Head(entries).k, Head(entries).v), Tail(entries))

parseFields(t, frontText, backText, req) ==
    SetAll(<<>>,
        assignments(groupOn(req, "radius"),
            <<[k |-> "Front_Rh", v |-> extractValue(frontText, LabelRe("rh"), 1)],
              [k |-> "Front_Rv", v |-> extractValue(frontText, LabelRe("rv"), 1)],
              [k |-> "Front_Rm", v |-> extractValue(frontText, LabelRe("rm"), 1)]>>)
        \o assignments(groupOn(req, "k"),
            <<[k |-> "Front_K1", v |-> extractValue(frontText, LabelRe("k1"), 1)],
              [k |-> "Front_K2", v |-> extractValue(frontText, LabelRe("k2"), 1)],
              [k |-> "Front_Km", v |-> extractValue(frontText, LabelRe("km"), 1)]>>)
        \o assignments(groupOn(req, "axis"),
            <<[k |-> "Front_Axis", v |-> axisValue(frontText)],
              [k |-> "Front_Astig", v |-> extractValue(frontText, LabelRe("astig"), 1)]>>)
        \o assignments(groupOn(req, "q"),
            <<[k |-> "Front_Q-val", v |-> extractValue(frontText, QvalRe, 1)]>>)
        \o assignments(groupOn(req, "rper"),
            <<[k |-> "Front_Rper", v |-> extractValue(frontText, LabelRe("rper"), 1)],
              [k |-> "Front_Rmin", v |-> extractValue(frontText, LabelRe("rmin"), 1)]>>)
        \o assignments(groupOn(req, "radius"),
            <<[k |-> "Back_Rh", v |-> extractValueWithNegative(backText, LabelRe("rh"), 1)],
              [k |-> "Back_Rv", v |-> extractValueWithNegative(backText, LabelRe("rv"), 1)],
              [k |-> "Back_Rm", v |-> extractValueWithNegative(backText, LabelRe("rm"), 1)]>>)
        \o assignments(groupOn(req, "k"),
            <<[k |-> "Back_K1", v |-> extractValueWithNegative(backText, SignedLabelRe("k1"), 1)],
              [k |-> "Back_K2", v |-> extractValueWithNegative(backText, SignedLabelRe("k2"), 1)],
              [k |-> "Back_Km", v |-> extractValueWithNegative(backText, SignedLabelRe("km"), 1)]>>)
        \o assignments(groupOn(req, "axis"),
            <<[k |-> "Back_Axis", v |-> axisValue(backText)],
              [k |-> "Back_Astig", v |-> extractValueWithNegative(backText, LabelRe("astig"), 1)]>>)
        \o assignments(groupOn(req, "q"),
            <<[k |-> "Back_Q-val", v |-> extractValueWithNegative(backText, QvalRe, 1)]>>)
        \o assignments(groupOn(req, "rper"),
            <<[k |-> "Back_Rper", v |-> extractValueWithNegative(backText, LabelRe("rper"), 1)],
              [k |-> "Back_Rmin", v |-> extractValueWithNegative(backText, LabelRe("rmin"), 1)]>>)
        \o assignments(groupOn(req, "pachy"),
            <<[k |-> "Pachy_Center", v |-> extractValue(t, PupilCenterRe, 1)],
              [k |-> "Pachy_Apex", v |-> extractValue(t, PachyApexRe, 1)],
              [k |-> "Pachy_Thinnest", v |-> extractValue(t, ThinnestRe, 1)]>>)
        \o assignments(groupOn(req, "ac"),
            <<[k |-> "AC_Depth", v |-> acDepthValue(t)],
              [k |-> "Pupil_Dia", v |-> pupilDiaValue(t)]>>))

parseCorneaData(t, f) ==
    LET sec == sections(t)
    IN parseFields(t, sec[1], sec[2], requestedFieldsOf(f))

----------------------------------------------------------------------------
(* processDetections (OCR route).  An annotation is                        *)
(*   [description, hasPoly, vertices]: hasPoly is whether boundingPoly and *)
(* its vertices are there, vertices the x of each vertex (a vertex without *)
(* x reads as 0, as `v.x || 0` does).  A missing description is "": the     *)
(* code only joins it or tests it for truthiness.                          *)
(* Thresholds are compared exactly: avgX < imageWidth * p/100 is           *)
(* 100 * sum < imageWidth * p * n for n vertices summing to sum.           *)

Sum(seq) ==
    LET S[i \in 0..Len(seq)] == IF i = 0 THEN 0 ELSE S[i - 1] + seq[i]
    IN S[Len(seq)]

MaxOf(seq) == CHOOSE m \in {seq[i] : i \in 1..Len(seq)} : \A i \in 1..Len(seq) : seq[i] <= m

\* the width used when the summary annotation has no bounding box
DefaultWidth == 1000
\* the two column thresholds, in hundredths of the image width
LeftPct == 33
ExtendedPct == 50

\* firstBBox ? Math.max(...firstBBox.map(v => v.x || 0)) : 1000
\* Math.max() of no argument is -Infinity: finite is FALSE then
imageWidthOf(dets) ==
    IF ~dets[1].hasPoly THEN [finite |-> TRUE, px |-> DefaultWidth]
    ELSE IF dets[1].vertices = <<>> THEN [finite |-> FALSE, px |-> 0]
    ELSE [finite |-> TRUE, px |-> MaxOf(dets[1].vertices)]

\* mutant: a block on the threshold passes
avgXBelowOrAt(block, width, pct) ==
    /\ width.finite
    /\ 100 * Sum(block.vertices) <= width.px * pct * Len(block.vertices)

\* avgX < imageWidth * pct / 100
avgXBelow(block, width, pct) ==
    /\ width.finite
    /\ 100 * Sum(block.vertices) < width.px * pct * Len(block.vertices)

Keywords == {"depth", "pupil", "chamber", "iop", "pachy", "lens", "dia"}

isRelevant(block) ==
    \E w \in Keywords : includes(toLowerCase(block.description), w)

hasVertices(block) == block.hasPoly /\ Len(block.vertices) > 0

\* the filter callbacks, on the position i of a block in detections
inMainData(dets, i) ==
    hasVertices(dets[i]) /\ avgXBelow(dets[i], imageWidthOf(dets), LeftPct)

inExtendedData(dets, i) ==
    /\ hasVertices(dets[i])
    /\ avgXBelow(dets[i], imageWidthOf(dets), ExtendedPct)
    /\ isRelevant(dets[i])

\* detections.slice(1), as the positions of its blocks in detections
restOf(dets) == [i \in 1..(Len(dets) - 1) |-> i + 1]

\* combinedBlocks: mainDataBlocks, then the extended blocks not among them
combinedBlocksOf(dets) ==
    LET mainDataBlocks == SelectSeq(restOf(dets), LAMBDA i : inMainData(dets, i))
        extendedDataBlocks == SelectSeq(restOf(dets), LAMBDA i : inExtendedData(dets, i))
        isNew(i) == \A j \in 1..Len(mainDataBlocks) : mainDataBlocks[j] # i
    IN mainDataBlocks \o SelectSeq(extendedDataBlocks, isNew)

\* mutant: the joined text stands even when it is empty
processDetectionsNoFallback(dets, type) ==
    IF Len(dets) = 0 THEN [fullText |-> "", textBlocks |-> <<>>, imageWidth |-> [finite |-> TRUE, px |-> 0]]
    ELSE LET kept == IF type = "full" THEN combinedBlocksOf(dets)
                     ELSE restOf(dets)
         IN [fullText |-> IF type = "full"
                          THEN join([i \in 1..Len(kept) |-> dets[kept[i]].description], "\n")
                          ELSE dets[1].description,
             textBlocks |-> [i \in 1..Len(kept) |->
                               [description |-> dets[kept[i]].description,
                                boundingBox |-> dets[kept[i]].vertices,
                                hasBox |-> dets[kept[i]].hasPoly,
                                index |-> kept[i]]],
             imageWidth |-> imageWidthOf(dets)]

\* the returned fullText, textBlocks and debug.imageWidth; index is the
\* block's position in detections (the identity of the annotation object)
processDetections(dets, type) ==
    IF Len(dets) = 0 THEN [fullText |-> "", textBlocks |-> <<>>, imageWidth |-> [finite |-> TRUE, px |-> 0]]
    ELSE LET kept == IF type = "full" THEN combinedBlocksOf(dets)
                     ELSE restOf(dets)
             joined == join([i \in 1..Len(kept) |-> dets[kept[i]].description], "\n")
             processedText == IF type = "full" /\ joined # "" THEN joined
                              ELSE dets[1].description
         IN [fullText |-> processedText,
             textBlocks |-> [i \in 1..Len(kept) |->
                               [description |-> dets[kept[i]].description,
                                boundingBox |-> dets[kept[i]].vertices,
                                hasBox |-> dets[kept[i]].hasPoly,
                                index |-> kept[i]]],
             imageWidth |-> imageWidthOf(dets)]

----------------------------------------------------------------------------
(* The single-file request of the OCR route.                               *)

MaxFragments == 2

\* the summary spans the page, 100 pixels wide
SummaryBoxes == {[hasPoly |-> TRUE, vertices |-> <<0, 100, 100, 0>>],
                 [hasPoly |-> TRUE, vertices |-> <<>>],
                 [hasPoly |-> FALSE, vertices |-> <<>>]}

Summaries ==
    {[description |-> d, hasPoly |-> b.hasPoly, vertices |-> b.vertices] :
        d \in {"", "K1 43.5 Pupil Dia"}, b \in SummaryBoxes}

\* word boxes left of, on and between the thresholds, and without a box
FragmentBoxes == {[hasPoly |-> TRUE, vertices |-> <<0, 20, 20, 0>>],
                  [hasPoly |-> TRUE, vertices |-> <<32, 34, 34, 32>>],
                  [hasPoly |-> TRUE, vertices |-> <<30, 50, 50, 30>>],
                  [hasPoly |-> TRUE, vertices |-> <<49, 51, 51, 49>>],
                  [hasPoly |-> FALSE, vertices |-> <<>>]}

Fragments ==
    {[description |-> d, hasPoly |-> b.hasPoly, vertices |-> b.vertices] :
        d \in {"K1", "Pupil Dia", ""}, b \in FragmentBoxes}

RECURSIVE FragmentSeqs(_)
FragmentSeqs(n) ==
    IF n = 0 THEN {<<>>}
    ELSE FragmentSeqs(n - 1) \cup
         {Append(fs, f) : fs \in {q \in FragmentSeqs(n - 1) : Len(q) = n - 1}, f \in Fragments}

DetectionLists ==
    {<<>>} \cup {<<sm>> \o fs : sm \in Summaries, fs \in FragmentSeqs(MaxFragments)}

\* debug: null
NoWidth == [finite |-> TRUE, px |-> 0]
NoResponse == [status |-> 0, fullText |-> "", textBlocks |-> <<>>, imageWidth |-> NoWidth]
NoBatchResponse == [status |-> 0, results |-> <<>>, totalProcessed |-> 0]
NoCombined == [totalWidth |-> 0, maxHeight |-> 0, boundaries |-> <<>>]
NoParsed == [buckets |-> <<>>, finalResults |-> <<>>, resultData |-> <<>>]

\* a cookie value that is no token, and no cookie
NoToken == [kind |-> "empty", authenticated |-> FALSE, exp |-> 0]
NoCookie == [has |-> FALSE, value |-> NoToken, expires |-> 0]
NoRequest == [path |-> "", cookie |-> NoCookie, at |-> 0]
NoAnswer == [by |-> "none", kind |-> "none", status |-> 0, location |-> "", clears |-> FALSE]

\* nobody has signed in or asked for a page
AuthIdle == jar = NoCookie /\ now = 0 /\ lastRequest = NoRequest /\ lastResponse = NoAnswer

\* null, as a point and as a rectangle under construction
NoPoint == [isNull |-> TRUE, x |-> <<0, 1>>, y |-> <<0, 1>>]
NoRect == [isNull |-> TRUE, x |-> <<0, 1>>, y |-> <<0, 1>>, width |-> <<0, 1>>, height |-> <<0, 1>>]

\* the editor's drawing and dragging state after mount; uuids counts the ids made
EditorIdle ==
    [isDrawing |-> FALSE, drawStart |-> NoPoint, currentRect |-> NoRect, draggedId |-> "", uuids |-> 0]

SingleInit ==
    /\ AuthIdle
    /\ detections \in DetectionLists
    /\ imageType \in {"full", "cropped"}
    /\ response = NoResponse
    /\ pcSingle = "call"
    /\ text = "" /\ fields = "" /\ data = <<>> /\ pcParse = "idle" /\ rows = <<>> /\ pcPage = "idle"
    /\ images = <<>> /\ batchI = 0 /\ responses = <<>> /\ calls = <<>> /\ allResults = <<>>
    /\ batchResponse = NoBatchResponse /\ pcBatch = "idle"
    /\ rects = <<>> /\ natural = [width |-> 0, height |-> 0] /\ editor = EditorIdle
    /\ combined = NoCombined /\ textBlocks = <<>> /\ parsed = NoParsed /\ pcRegion = "idle"

\* if (!detections || detections.length === 0) return 404
SingleNoText ==
    /\ pcSingle = "call"
    /\ Len(detections) = 0
    /\ response' = [status |-> 404, fullText |-> "", textBlocks |-> <<>>, imageWidth |-> NoWidth]
    /\ pcSingle' = "done"
    /\ UNCHANGED <<detections, imageType>>
    /\ UNCHANGED <<parseVars, batchVars, regionVars, authVars>>

SingleProcessed ==
    /\ pcSingle = "call"
    /\ Len(detections) > 0
    /\ response' = [status |-> 200,
                    fullText |-> processDetections(detections, imageType).fullText,
                    textBlocks |-> processDetections(detections, imageType).textBlocks,
                    imageWidth |-> processDetections(detections, imageType).imageWidth]
    /\ pcSingle' = "done"
    /\ UNCHANGED <<detections, imageType>>
    /\ UNCHANGED <<parseVars, batchVars, regionVars, authVars>>

----------------------------------------------------------------------------
(* The inputs parseCorneaData is applied to.                               *)

MaxLines == 2
MaxSlack == 13

\* lines of OCR text, as the topography printout gives them
ParseLines ==
    {"Cornea Front", "Back", "K1: 43.50", "K2: -6.30", "Rh: -6.10", "Depth: 3.22"}

RECURSIVE LineSeqs(_)
LineSeqs(n) ==
    IF n = 0 THEN {<<>>}
    ELSE LineSeqs(n - 1) \cup
         {Append(ls, l) : ls \in {q \in LineSeqs(n - 1) : Len(q) = n - 1}, l \in ParseLines}

LineTexts == {join(ls, "\n") : ls \in LineSeqs(MaxLines)}

\* front and back keratometry readings under their headings
KValues == {"43.50", "6.1"}

KExample(a, b, c, d) ==
    join(<<"Cornea Front", "K1: " \o a, "K2: " \o b, "Cornea Back", "K1: -" \o c, "K2: -" \o d>>, "\n")

KExampleTexts == {KExample(a, b, c, d) : a \in KValues, b \in KValues, c \in KValues, d \in KValues}

RECURSIVE Repeat(_, _)
Repeat(c, n) ==
    IF n = 0 THEN ""
    ELSE IF n = 1 THEN c
    ELSE Repeat(c, n \div 2) \o Repeat(c, n - (n \div 2))

\* "Depth", then n characters, then the colon and the reading: n up to the
\* edge of the window and past it
DepthFills == {0} \cup {DepthWindow - j : j \in 4..MaxSlack}

DepthTexts ==
    {pre \o "Depth" \o Repeat("_", n) \o ": " \o num \o " mm" :
        pre \in {"", "12.5 "}, n \in DepthFills, num \in {"3.22", "3"}}

\* further readings of the printout
SampleTexts ==
    {"A.C. Depth(Int.): 3.22 mm\nPupil Dia: 2.92 mm", "Chamber DEPTH 1.5 : x 10 2.75 3.5",
     "Pupil Center: +552\nThinnest Local: # 530\nQ-val. (8mm): -0.35",
     "Cornea Front\nAxis (flat): 12.3 @\nAstig: 1.2\nCornea Back\n170.5 @"}

ShortTexts == LineTexts \cup KExampleTexts \cup SampleTexts

\* the requested-fields strings: the page's presets, the advertised keywords
FieldInputs ==
    {"", "all", "k", "k, ac, pupil", "ALL, x", " , ", "Tümü",
     "ac", "pupil", "radius", "axis", "astig", "q", "rper", "rmin", "pachy"}

DepthFieldInputs == {"ac", "k, ac, pupil", "k"}

ParseInit ==
    /\ AuthIdle
    /\ \/ text \in ShortTexts /\ fields \in FieldInputs
       \/ text \in DepthTexts /\ fields \in DepthFieldInputs
    /\ data = <<>>
    /\ pcParse = "call"
    /\ rows = <<>> /\ pcPage = "idle"
    /\ detections = <<>> /\ imageType = "full" /\ response = NoResponse /\ pcSingle = "idle"
    /\ images = <<>> /\ batchI = 0 /\ responses = <<>> /\ calls = <<>> /\ allResults = <<>>
    /\ batchResponse = NoBatchResponse /\ pcBatch = "idle"
    /\ rects = <<>> /\ natural = [width |-> 0, height |-> 0] /\ editor = EditorIdle
    /\ combined = NoCombined /\ textBlocks = <<>> /\ parsed = NoParsed /\ pcRegion = "idle"

\* the v1 page calls parseCorneaData(result.fullText, fieldNames)
ParseCorneaData ==
    /\ pcParse = "call"
    /\ data' = parseCorneaData(text, fields)
    /\ pcParse' = "done"
    /\ UNCHANGED <<text, fields, rows, pcPage>>
    /\ UNCHANGED <<singleVars, batchVars, regionVars, authVars>>

----------------------------------------------------------------------------
(* The batch request of the OCR route.                                     *)

BATCH_SIZE == 16
MaxImages == 17
MaxNoText == 2

\* the v1 page's correlation identifiers: `${index}-${file.name}`
idOf(i) == ToString(i - 1) \o "-scan.png"

\* what the detector finds on an image with text
PageDetections ==
    <<[description |-> "K1 43.5 Pupil Dia", hasPoly |-> TRUE, vertices |-> <<0, 100, 100, 0>>],
      [description |-> "K1", hasPoly |-> TRUE, vertices |-> <<0, 20, 20, 0>>],
      [description |-> "Pupil Dia", hasPoly |-> TRUE, vertices |-> <<49, 51, 51, 49>>]>>

ImageLists ==
    {[i \in 1..n |-> [id |-> idOf(i), imageType |-> ty,
                      textAnnotations |-> IF i \in blank THEN <<>> ELSE PageDetections]] :
        n \in 0..MaxImages, ty \in {"full", "cropped"},
        blank \in {b \in SUBSET (1..MaxImages) : Cardinality(b) <= MaxNoText}}

BatchInit ==
    /\ AuthIdle
    /\ images \in ImageLists
    /\ batchI = 0
    /\ responses = <<>>
    /\ calls = <<>>
    /\ allResults = <<>>
    /\ batchResponse = NoBatchResponse
    /\ pcBatch = "call"
    /\ text = "" /\ fields = "" /\ data = <<>> /\ pcParse = "idle" /\ rows = <<>> /\ pcPage = "idle"
    /\ detections = <<>> /\ imageType = "full" /\ response = NoResponse /\ pcSingle = "idle"
    /\ rects = <<>> /\ natural = [width |-> 0, height |-> 0] /\ editor = EditorIdle
    /\ combined = NoCombined /\ textBlocks = <<>> /\ parsed = NoParsed /\ pcRegion = "idle"

\* mutant: the slice starts one image early
batchOfOverlapping(imgs, i) ==
    SubSeq(imgs, IF i = 0 THEN 1 ELSE i, IF i + BATCH_SIZE < Len(imgs) THEN i + BATCH_SIZE ELSE Len(imgs))

\* mutant: a slice of one image more
batchOfOneMore(imgs, i) ==
    SubSeq(imgs, i + 1, IF i + BATCH_SIZE + 1 < Len(imgs) THEN i + BATCH_SIZE + 1 ELSE Len(imgs))

\* images.slice(i, i + BATCH_SIZE), i counted from 0
batchOf(imgs, i) ==
    SubSeq(imgs, i + 1, IF i + BATCH_SIZE < Len(imgs) THEN i + BATCH_SIZE ELSE Len(imgs))

\* batch.map(img => ({image: ..., features: ...})): the requests of one
\* call, each named by the id of its image
requestsOf(batch) == [idx \in 1..Len(batch) |-> batch[idx].id]

\* the orders in which the detector may list the responses of one call of n
\* requests: response idx answers request order[idx]; the request order,
\* its reverse, and the request order rotated by one
ResponseOrders(n) ==
    {[idx \in 1..n |-> idx], [idx \in 1..n |-> n + 1 - idx], [idx \in 1..n |-> (idx % n) + 1]}

\* mutant: an entry with success for every image
resultOfAlways(img, dets) ==
    [id |-> img.id, success |-> TRUE,
     fullText |-> processDetections(dets, img.imageType).fullText,
     textBlocks |-> processDetections(dets, img.imageType).textBlocks]

\* the entry batch.forEach pushes for img, detections being
\* response.responses?.[idx]?.textAnnotations
resultOf(img, dets) ==
    IF Len(dets) = 0
    THEN [id |-> img.id, success |-> FALSE, fullText |-> "", textBlocks |-> <<>>]
    ELSE [id |-> img.id, success |-> TRUE,
          fullText |-> processDetections(dets, img.imageType).fullText,
          textBlocks |-> processDetections(dets, img.imageType).textBlocks]

\* the entries of one turn of the loop, response.responses listing the
\* images of the batch in the given order
entriesOf(batch, order) ==
    [idx \in 1..Len(batch) |-> resultOf(batch[idx], batch[order[idx]].textAnnotations)]

\* if (!images || images.length === 0) return 400
BatchNoImages ==
    /\ pcBatch = "call"
    /\ Len(images) = 0
    /\ batchResponse' = [status |-> 400, results |-> <<>>, totalProcessed |-> 0]
    /\ pcBatch' = "done"
    /\ UNCHANGED <<images, batchI, responses, calls, allResults>>
    /\ UNCHANGED <<parseVars, singleVars, regionVars, authVars>>

BatchBegin ==
    /\ pcBatch = "call"
    /\ Len(images) > 0
    /\ batchI' = 0
    /\ allResults' = <<>>
    /\ UNCHANGED <<responses, calls>>
    /\ pcBatch' = "loop"
    /\ UNCHANGED <<images, batchResponse>>
    /\ UNCHANGED <<parseVars, singleVars, regionVars, authVars>>

\* one turn of the loop: the detector call returns and every image of the
\* batch gets its entry
BatchIterate ==
    /\ pcBatch = "loop"
    /\ batchI < Len(images)
    /\ \E order \in ResponseOrders(Len(batchOf(images, batchI))) :
          /\ responses' = responses \o [idx \in 1..Len(batchOf(images, batchI)) |->
                                          batchOf(images, batchI)[order[idx]].textAnnotations]
          /\ allResults' = allResults \o entriesOf(batchOf(images, batchI), order)
    /\ calls' = Append(calls, requestsOf(batchOf(images, batchI)))
    /\ batchI' = batchI + BATCH_SIZE
    /\ UNCHANGED <<images, batchResponse, pcBatch>>
    /\ UNCHANGED <<parseVars, singleVars, regionVars, authVars>>

\* the detector call throws: the catch block answers 500
BatchDetectorThrows ==
    /\ pcBatch = "loop"
    /\ batchI < Len(images)
    /\ batchResponse' = [status |-> 500, results |-> <<>>, totalProcessed |-> 0]
    /\ pcBatch' = "done"
    /\ calls' = Append(calls, requestsOf(batchOf(images, batchI)))
    /\ UNCHANGED <<images, batchI, responses, allResults>>
    /\ UNCHANGED <<parseVars, singleVars, regionVars, authVars>>

BatchRespond ==
    /\ pcBatch = "loop"
    /\ batchI >= Len(images)
    /\ batchResponse' = [status |-> 200, results |-> allResults, totalProcessed |-> Len(images)]
    /\ pcBatch' = "done"
    /\ UNCHANGED <<images, batchI, responses, calls, allResults>>
    /\ UNCHANGED <<parseVars, singleVars, regionVars, authVars>>

----------------------------------------------------------------------------
(* processFiles of the v1 page: the batch request and the rows made of its *)
(* results.                                                                *)

MaxFiles == 3

\* the files chosen, as the images of the request made of them: at least one
PageImageLists == {l \in ImageLists : Len(l) >= 1 /\ Len(l) <= MaxFiles}

\* the field names typed: the preset, one keyword, nothing
PageFieldNames == {"k, ac, pupil", "pachy", ""}

PageInit ==
    /\ AuthIdle
    /\ images \in PageImageLists
    /\ fields \in PageFieldNames
    /\ rows = <<>> /\ pcPage = "fetch"
    /\ batchI = 0 /\ responses = <<>> /\ calls = <<>> /\ allResults = <<>>
    /\ batchResponse = NoBatchResponse /\ pcBatch = "call"
    /\ text = "" /\ data = <<>> /\ pcParse = "idle"
    /\ detections = <<>> /\ imageType = "full" /\ response = NoResponse /\ pcSingle = "idle"
    /\ rects = <<>> /\ natural = [width |-> 0, height |-> 0] /\ editor = EditorIdle
    /\ combined = NoCombined /\ textBlocks = <<>> /\ parsed = NoParsed /\ pcRegion = "idle"

\* the row data.results.map makes of one result: without success an empty
\* text and no extracted data, else the data parsed from the text
rowOf(result, fieldNames) ==
    IF ~result.success
    THEN [fileName |-> "scan.png", fullText |-> "", extractedData |-> <<>>]
    ELSE [fileName |-> "scan.png", fullText |-> result.fullText,
          extractedData |-> parseCorneaData(result.fullText, fieldNames)]

\* the response is ok: setResults(processedResults)
ProcessResults ==
    /\ pcPage = "fetch" /\ pcBatch = "done" /\ batchResponse.status = 200
    /\ rows' = [index \in 1..Len(batchResponse.results) |->
                   rowOf(batchResponse.results[index], fields)]
    /\ pcPage' = "shown"
    /\ UNCHANGED <<text, fields, data, pcParse>>
    /\ UNCHANGED <<singleVars, batchVars, regionVars, authVars>>

\* !response.ok: the error is thrown and alerted, the results stay empty
ProcessFailed ==
    /\ pcPage = "fetch" /\ pcBatch = "done" /\ batchResponse.status # 200
    /\ pcPage' = "failed"
    /\ UNCHANGED <<text, fields, data, pcParse, rows>>
    /\ UNCHANGED <<singleVars, batchVars, regionVars, authVars>>

----------------------------------------------------------------------------
(* The region editor: combineRegions, the OCR call, parseRegionResults.    *)

GAP == 10
MaxRects == 2
MaxBlocks == 2

\* a rectangle's x, y, width and height are fractions of the image, here
\* dyadic ones, <<numerator, denominator>>; the canvas keeps whole pixels
pixels(q, n) == (q[1] * n) \div q[2]

\* the size of the blob cropRegion resolves with; a canvas without pixels
\* gives toBlob a null blob and the promise is rejected
cropRegion(rect, nat) ==
    LET width == pixels(rect.width, nat.width)
        height == pixels(rect.height, nat.height)
    IN [ok |-> width > 0 /\ height > 0, id |-> rect.id, width |-> width, height |-> height]

croppedImagesOf(rs, nat) == [k \in 1..Len(rs) |-> cropRegion(rs[k], nat)]

\* mutant: the gap is counted into the range, not between the ranges
RECURSIVE boundariesFromNoGap(_, _, _)
boundariesFromNoGap(cropped, k, currentX) ==
    IF k > Len(cropped) THEN <<>>
    ELSE <<[id |-> cropped[k].id, xStart |-> currentX, xEnd |-> currentX + cropped[k].width + GAP]>>
         \o boundariesFromNoGap(cropped, k + 1, currentX + cropped[k].width)

\* the second loop of combineRegions, from croppedImages[k] on
RECURSIVE boundariesFrom(_, _, _)
boundariesFrom(cropped, k, currentX) ==
    IF k > Len(cropped) THEN <<>>
    ELSE <<[id |-> cropped[k].id, xStart |-> currentX, xEnd |-> currentX + cropped[k].width]>>
         \o boundariesFrom(cropped, k + 1, currentX + cropped[k].width + GAP)

\* mutant: a canvas with a gap after every crop, the last one too
combineRegionsGapAfterEach(rs, nat) ==
    LET croppedImages == croppedImagesOf(rs, nat)
    IN [totalWidth |-> Sum([k \in 1..Len(rs) |-> croppedImages[k].width]) + GAP * Len(rs),
        maxHeight |-> MaxOf([k \in 1..Len(rs) |-> croppedImages[k].height]),
        boundaries |-> boundariesFrom(croppedImages, 1, 0)]

combineRegions(rs, nat) ==
    LET croppedImages == croppedImagesOf(rs, nat)
    IN [totalWidth |-> Sum([k \in 1..Len(rs) |-> croppedImages[k].width]) + GAP * (Len(rs) - 1),
        maxHeight |-> MaxOf([k \in 1..Len(rs) |-> croppedImages[k].height]),
        boundaries |-> boundariesFrom(croppedImages, 1, 0)]

\* mutant: no upper end of the range
inBoundaryFromStart(block, boundary) ==
    Sum(block.boundingBox) >= boundary.xStart * Len(block.boundingBox)

\* avgX >= boundary.xStart && avgX < boundary.xEnd, avgX the mean of the box's x
inBoundary(block, boundary) ==
    /\ Sum(block.boundingBox) >= boundary.xStart * Len(block.boundingBox)
    /\ Sum(block.boundingBox) < boundary.xEnd * Len(block.boundingBox)

\* mutant: the range closed at xEnd, the last match taken
regionOfLast(block, boundaries) ==
    IF ~block.hasBox \/ Len(block.boundingBox) = 0 THEN 0
    ELSE LET hits == {k \in 1..Len(boundaries) :
                        /\ Sum(block.boundingBox) >= boundaries[k].xStart * Len(block.boundingBox)
                        /\ Sum(block.boundingBox) <= boundaries[k].xEnd * Len(block.boundingBox)}
         IN IF hits = {} THEN 0 ELSE CHOOSE k \in hits : \A h \in hits : h <= k

\* the position of the boundary whose bucket the block is pushed to: the
\* first one that holds avgX; 0 when the block is skipped
regionOf(block, boundaries) ==
    IF ~block.hasBox \/ Len(block.boundingBox) = 0 THEN 0
    ELSE LET hits == {k \in 1..Len(boundaries) : inBoundary(block, boundaries[k])}
         IN IF hits = {} THEN 0 ELSE CHOOSE k \in hits : \A h \in hits : k <= h

\* mutant: white space is left as it is
collapseWhitespaceNot(s) == s

\* .replace(/\s+/g, ' ')
RECURSIVE collapseWhitespace(_)
collapseWhitespace(s) ==
    IF s = "" THEN ""
    ELSE IF CharAt(s, 1) \in WhiteSpace
         THEN IF Len(s) > 1 /\ CharAt(s, 2) \in WhiteSpace
              THEN collapseWhitespace(Tail(s))
              ELSE " " \o collapseWhitespace(Tail(s))
         ELSE CharAt(s, 1) \o collapseWhitespace(Tail(s))

\* buckets[k]: the positions in textBlocks, in order, of the blocks pushed to
\* results[boundaries[k].id]; finalResults: the returned record, as entries
parseRegionResults(blocks, boundaries) ==
    LET buckets == [k \in 1..Len(boundaries) |->
                      SelectSeq([b \in 1..Len(blocks) |-> b],
                                LAMBDA b : regionOf(blocks[b], boundaries) = k)]
        texts(k) == [j \in 1..Len(buckets[k]) |-> blocks[buckets[k][j]].description]
        joined(k) == trim(collapseWhitespace(join(texts(k), " ")))
    IN [buckets |-> buckets,
        finalResults |-> [k \in 1..Len(boundaries) |->
                            [k |-> boundaries[k].id,
                             v |-> IF joined(k) = "" THEN "-" ELSE joined(k)]]]

\* the rectangles the mouse handlers add: a positive share of the template
RectShapes ==
    {[x |-> <<0, 1>>, y |-> <<0, 1>>, width |-> <<1, 2>>, height |-> <<1, 1>>],
     [x |-> <<1, 2>>, y |-> <<1, 4>>, width |-> <<1, 4>>, height |-> <<1, 2>>]}

rectId(k) == "rect-" \o ToString((7 * k) % 10)

RECURSIVE ShapeSeqs(_)
ShapeSeqs(n) ==
    IF n = 0 THEN {<<>>}
    ELSE ShapeSeqs(n - 1) \cup
         {Append(ss, s) : ss \in {q \in ShapeSeqs(n - 1) : Len(q) = n - 1}, s \in RectShapes}

RectLists ==
    {[k \in 1..Len(ss) |-> [id |-> rectId(k), label |-> "Alan " \o ToString(k),
                            x |-> ss[k].x, y |-> ss[k].y,
                            width |-> ss[k].width, height |-> ss[k].height]] :
        ss \in ShapeSeqs(MaxRects) \ {<<>>}}

\* uploaded images as large as the template, and smaller
NaturalSizes == {[width |-> 8, height |-> 8], [width |-> 3, height |-> 3]}

\* what the detector reads for the k-th block: a label and a number over a
\* line break, white space only, a word
descriptionOf(k) ==
    IF k % 3 = 1 THEN "K" \o ToString(k) \o " \n 43.5"
    ELSE IF k % 3 = 2 THEN " \n"
    ELSE "D" \o ToString(k)

\* the box at the left edge of the crop of boundary b
LeftBoxAt(b) == [hasBox |-> TRUE, boundingBox |-> <<b.xStart, b.xStart, b.xStart, b.xStart>>]

\* boxes the detector may report around the crop of boundary b: at its left
\* edge, across it, over its right edge, and none
BoxesAt(b) ==
    {LeftBoxAt(b),
     [hasBox |-> TRUE, boundingBox |-> <<b.xStart, b.xEnd - 1, b.xEnd - 1, b.xStart>>],
     [hasBox |-> TRUE, boundingBox |-> <<b.xEnd - 1, b.xEnd + 1, b.xEnd + 1, b.xEnd - 1>>],
     [hasBox |-> FALSE, boundingBox |-> <<>>]}

\* a block: the crop its text was read from (origin) and the box reported,
\* around that crop or at the left edge of the next one
BlocksOf(bs) ==
    UNION {{[origin |-> o, hasBox |-> bx.hasBox, boundingBox |-> bx.boundingBox] :
               bx \in BoxesAt(bs[o]) \cup {LeftBoxAt(bs[(o % Len(bs)) + 1])}} : o \in 1..Len(bs)}

RECURSIVE BlockSeqs(_, _)
BlockSeqs(bs, n) ==
    IF n = 0 THEN {<<>>}
    ELSE BlockSeqs(bs, n - 1) \cup
         {Append(q, [description |-> descriptionOf(n), origin |-> b.origin,
                     hasBox |-> b.hasBox, boundingBox |-> b.boundingBox]) :
             q \in {p \in BlockSeqs(bs, n - 1) : Len(p) = n - 1}, b \in BlocksOf(bs)}


RegionInit ==
    /\ AuthIdle
    /\ rects \in RectLists
    /\ natural \in NaturalSizes
    /\ combined = NoCombined
    /\ textBlocks = <<>>
    /\ parsed = NoParsed
    /\ pcRegion = "combine"
    /\ editor = EditorIdle
    /\ text = "" /\ fields = "" /\ data = <<>> /\ pcParse = "idle" /\ rows = <<>> /\ pcPage = "idle"
    /\ detections = <<>> /\ imageType = "full" /\ response = NoResponse /\ pcSingle = "idle"
    /\ images = <<>> /\ batchI = 0 /\ responses = <<>> /\ calls = <<>> /\ allResults = <<>>
    /\ batchResponse = NoBatchResponse /\ pcBatch = "idle"

\* await combineRegions(file, rectangles) returns
CombineRegions ==
    /\ pcRegion = "combine"
    /\ \A k \in 1..Len(rects) : cropRegion(rects[k], natural).ok
    /\ combined' = combineRegions(rects, natural)
    /\ pcRegion' = "ocr"
    /\ UNCHANGED <<rects, natural, textBlocks, parsed, editor>>
    /\ UNCHANGED <<parseVars, singleVars, batchVars, authVars>>

\* a crop is rejected: combineRegions throws and processOCR's catch alerts
CombineRegionsThrows ==
    /\ pcRegion = "combine"
    /\ \E k \in 1..Len(rects) : ~cropRegion(rects[k], natural).ok
    /\ pcRegion' = "failed"
    /\ UNCHANGED <<rects, natural, combined, textBlocks, parsed, editor>>
    /\ UNCHANGED <<parseVars, singleVars, batchVars, authVars>>

\* the OCR route answers the composite with data.textBlocks
OcrResponds ==
    /\ pcRegion = "ocr"
    /\ textBlocks' \in BlockSeqs(combined.boundaries, MaxBlocks)
    /\ pcRegion' = "parse"
    /\ UNCHANGED <<rects, natural, combined, parsed, editor>>
    /\ UNCHANGED <<parseVars, singleVars, batchVars, authVars>>

\* !response.ok: every rectangle gets '-', under its label
OcrNotOk ==
    /\ pcRegion = "ocr"
    /\ parsed' = [buckets |-> <<>>, finalResults |-> <<>>,
                  resultData |-> [k \in 1..Len(rects) |-> [k |-> rects[k].label, v |-> "-"]]]
    /\ pcRegion' = "done"
    /\ UNCHANGED <<rects, natural, combined, textBlocks, editor>>
    /\ UNCHANGED <<parseVars, singleVars, batchVars, authVars>>

\* parseRegionResults(data.textBlocks || [], boundaries), then
\* resultData[rect.id] = parsedResults[rect.id] || '-'
ParseRegionResults ==
    /\ pcRegion = "parse"
    /\ parsed' = [buckets |-> parseRegionResults(textBlocks, combined.boundaries).buckets,
                  finalResults |-> parseRegionResults(textBlocks, combined.boundaries).finalResults,
                  resultData |->
                      [k \in 1..Len(rects) |->
                          [k |-> rects[k].id,
                           v |-> LET fr == parseRegionResults(textBlocks, combined.boundaries).finalResults
                                     hit == {j \in 1..Len(fr) : fr[j].k = rects[k].id}
                                 IN IF hit = {} THEN "-"
                                    ELSE fr[CHOOSE j \in hit : \A h \in hit : h <= j].v]]]
    /\ pcRegion' = "done"
    /\ UNCHANGED <<rects, natural, combined, textBlocks, editor>>
    /\ UNCHANGED <<parseVars, singleVars, batchVars, authVars>>

----------------------------------------------------------------------------
(* The region editor's mouse, label, delete and drag-and-drop handlers.    *)

MaxUuids == 2

\* the displayed template, in pixels
TemplateSize == [width |-> 40, height |-> 40]

\* where the mouse can be, relative to the canvas' corner: on the canvas and off it
MousePositions == {<<-4, -3>>, <<0, 0>>, <<12, 10>>, <<40, 40>>, <<44, 45>>}

\* mutant: the position as a fraction, not clamped
getCanvasCoordsUnclamped(pos) ==
    [isNull |-> FALSE, x |-> <<pos[1], TemplateSize.width>>, y |-> <<pos[2], TemplateSize.height>>]

\* Math.max(0, Math.min(1, x)) of (e.clientX - rect.left) / templateSize.width,
\* as <<numerator, denominator>>; the same for y
getCanvasCoords(pos) ==
    [isNull |-> FALSE,
     x |-> <<IF pos[1] < 0 THEN 0 ELSE IF pos[1] > TemplateSize.width THEN TemplateSize.width ELSE pos[1],
             TemplateSize.width>>,
     y |-> <<IF pos[2] < 0 THEN 0 ELSE IF pos[2] > TemplateSize.height THEN TemplateSize.height ELSE pos[2],
             TemplateSize.height>>]

\* Math.min(a, b) and Math.abs(a - b) of two fractions of one denominator
minOf(a, b) == IF a[1] <= b[1] THEN a ELSE b
absDiff(a, b) == <<IF a[1] >= b[1] THEN a[1] - b[1] ELSE b[1] - a[1], a[2]>>

\* q > 10 / Math.min(templateSize.width, templateSize.height)
aboveMinSize(q) ==
    q[1] * (IF TemplateSize.width <= TemplateSize.height THEN TemplateSize.width ELSE TemplateSize.height)
        > 10 * q[2]

\* the labels typed into a rectangle's input
TypedLabels == {"K1"}

EditorInit ==
    /\ AuthIdle
    /\ rects = <<>>
    /\ editor = EditorIdle
    /\ natural = [width |-> 0, height |-> 0]
    /\ combined = NoCombined /\ textBlocks = <<>> /\ parsed = NoParsed /\ pcRegion = "idle"
    /\ text = "" /\ fields = "" /\ data = <<>> /\ pcParse = "idle" /\ rows = <<>> /\ pcPage = "idle"
    /\ detections = <<>> /\ imageType = "full" /\ response = NoResponse /\ pcSingle = "idle"
    /\ images = <<>> /\ batchI = 0 /\ responses = <<>> /\ calls = <<>> /\ allResults = <<>>
    /\ batchResponse = NoBatchResponse /\ pcBatch = "idle"

handleMouseDown ==
    /\ pcRegion = "idle"
    /\ \E pos \in MousePositions :
          editor' = [editor EXCEPT !.isDrawing = TRUE, !.drawStart = getCanvasCoords(pos)]
    /\ UNCHANGED <<rects, natural, combined, textBlocks, parsed, pcRegion>>
    /\ UNCHANGED <<parseVars, singleVars, batchVars, authVars>>

handleMouseMove ==
    /\ pcRegion = "idle"
    /\ editor.isDrawing /\ ~editor.drawStart.isNull
    /\ \E pos \in MousePositions :
          editor' = [editor EXCEPT !.currentRect =
                        [isNull |-> FALSE,
                         x |-> minOf(editor.drawStart.x, getCanvasCoords(pos).x),
                         y |-> minOf(editor.drawStart.y, getCanvasCoords(pos).y),
                         width |-> absDiff(getCanvasCoords(pos).x, editor.drawStart.x),
                         height |-> absDiff(getCanvasCoords(pos).y, editor.drawStart.y)]]
    /\ UNCHANGED <<rects, natural, combined, textBlocks, parsed, pcRegion>>
    /\ UNCHANGED <<parseVars, singleVars, batchVars, authVars>>

\* onMouseUp and onMouseLeave; a rectangle is added when it is large enough
\* (ids are made as long as the model's supply lasts)
handleMouseUp ==
    /\ pcRegion = "idle"
    /\ IF /\ ~editor.currentRect.isNull
          /\ aboveMinSize(editor.currentRect.width) /\ aboveMinSize(editor.currentRect.height)
          /\ editor.uuids < MaxUuids
       THEN /\ rects' = Append(rects, [id |-> rectId(editor.uuids + 1),
                                       label |-> "Alan " \o ToString(Len(rects) + 1),
                                       x |-> editor.currentRect.x, y |-> editor.currentRect.y,
                                       width |-> editor.currentRect.width,
                                       height |-> editor.currentRect.height])
            /\ editor' = [editor EXCEPT !.isDrawing = FALSE, !.drawStart = NoPoint,
                                        !.currentRect = NoRect, !.uuids = editor.uuids + 1]
       ELSE /\ rects' = rects
            /\ editor' = [editor EXCEPT !.isDrawing = FALSE, !.drawStart = NoPoint,
                                        !.currentRect = NoRect]
    /\ UNCHANGED <<natural, combined, textBlocks, parsed, pcRegion>>
    /\ UNCHANGED <<parseVars, singleVars, batchVars, authVars>>

handleLabelChange ==
    /\ pcRegion = "idle"
    /\ \E k \in 1..Len(rects), newLabel \in TypedLabels :
          rects' = [j \in 1..Len(rects) |->
                       IF rects[j].id = rects[k].id THEN [rects[j] EXCEPT !.label = newLabel]
                       ELSE rects[j]]
    /\ UNCHANGED <<natural, combined, textBlocks, parsed, pcRegion, editor>>
    /\ UNCHANGED <<parseVars, singleVars, batchVars, authVars>>

handleDeleteRectangle ==
    /\ pcRegion = "idle"
    /\ \E k \in 1..Len(rects) :
          rects' = SelectSeq(rects, LAMBDA r : r.id # rects[k].id)
    /\ UNCHANGED <<natural, combined, textBlocks, parsed, pcRegion, editor>>
    /\ UNCHANGED <<parseVars, singleVars, batchVars, authVars>>

handleDragStart ==
    /\ pcRegion = "idle"
    /\ \E k \in 1..Len(rects) : editor' = [editor EXCEPT !.draggedId = rects[k].id]
    /\ UNCHANGED <<rects, natural, combined, textBlocks, parsed, pcRegion>>
    /\ UNCHANGED <<parseVars, singleVars, batchVars, authVars>>

\* newRectangles.splice(draggedIndex, 1), then splice(targetIndex, 0, draggedItem);
\* both positions 1-based here
moveTo(rs, draggedIndex, targetIndex) ==
    LET without == [j \in 1..(Len(rs) - 1) |-> IF j < draggedIndex THEN rs[j] ELSE rs[j + 1]]
    IN [j \in 1..Len(rs) |->
           IF j < targetIndex THEN without[j]
           ELSE IF j = targetIndex THEN rs[draggedIndex]
           ELSE without[j - 1]]

\* rectangles.findIndex(r => r.id === id), 1-based; 0 when there is none
findIndex(rs, id) ==
    LET hits == {j \in 1..Len(rs) : rs[j].id = id}
    IN IF hits = {} THEN 0 ELSE CHOOSE j \in hits : \A h \in hits : j <= h

handleDrop ==
    /\ pcRegion = "idle"
    /\ \E k \in 1..Len(rects) :
          /\ rects' = IF \/ editor.draggedId = "" \/ editor.draggedId = rects[k].id
                         \/ findIndex(rects, editor.draggedId) = 0
                      THEN rects
                      ELSE moveTo(rects, findIndex(rects, editor.draggedId), k)
    /\ editor' = [editor EXCEPT !.draggedId = ""]
    /\ UNCHANGED <<natural, combined, textBlocks, parsed, pcRegion>>
    /\ UNCHANGED <<parseVars, singleVars, batchVars, authVars>>

handleDragEnd ==
    /\ pcRegion = "idle"
    /\ editor.draggedId # ""
    /\ editor' = [editor EXCEPT !.draggedId = ""]
    /\ UNCHANGED <<rects, natural, combined, textBlocks, parsed, pcRegion>>
    /\ UNCHANGED <<parseVars, singleVars, batchVars, authVars>>

----------------------------------------------------------------------------
(* Sign-in: the login and logout routes, the tokens, the middleware.       *)
(* A cookie value is [kind, authenticated, exp]: kind "jwt" for a token    *)
(* signed with AUTH_SECRET, of payload field authenticated and expiry exp, *)
(* "garbage" for any other text, "empty" for ''.  Time is counted in days. *)

MaxNow == 8

\* TOKEN_EXPIRY '7d' and AUTH_TOKEN_EXPIRY, 7 days in seconds
TokenLife == 7
CookieMaxAge == 7

\* process.env.AUTH_PASSWORD
AuthPassword == "secret"
Passwords == {"", "secret", "guess"}

\* pathname.startsWith(prefix)
startsWith(s, prefix) == Len(s) >= Len(prefix) /\ SubSeq(s, 1, Len(prefix)) = prefix
endsWith(s, suffix) == Len(s) >= Len(suffix) /\ SubSeq(s, Len(s) - Len(suffix) + 1, Len(s)) = suffix

\* config.matcher: every path but _next/static, _next/image, favicon.ico and
\* the paths ending in an image extension
matcher(pathname) ==
    /\ ~startsWith(pathname, "/_next/static") /\ ~startsWith(pathname, "/_next/image")
    /\ ~startsWith(pathname, "/favicon.ico")
    /\ \A ext \in {".svg", ".png", ".jpg", ".jpeg", ".gif", ".webp"} : ~endsWith(pathname, ext)

\* the paths asked for
Paths == {"/", "/v2", "/api/ocr", "/login", "/login-help", "/api/auth/logout", "/logo.png"}

\* createToken(): authenticated: true, expiring 7 days from now
createToken(t) == [kind |-> "jwt", authenticated |-> TRUE, exp |-> t + TokenLife]

\* mutant: a signed token is taken whatever its expiry
verifyTokenNoExpiry(token, t) ==
    IF token.kind = "jwt" THEN [ok |-> TRUE, authenticated |-> token.authenticated]
    ELSE [ok |-> FALSE, authenticated |-> FALSE]

\* jwtVerify(token, AUTH_SECRET): the payload, or null (ok FALSE) when the
\* signature or the expiry does not hold
verifyToken(token, t) ==
    IF token.kind = "jwt" /\ t < token.exp
    THEN [ok |-> TRUE, authenticated |-> token.authenticated]
    ELSE [ok |-> FALSE, authenticated |-> FALSE]

\* the middleware's answer to a request for pathname carrying cookie
middleware(pathname, cookie, t) ==
    IF startsWith(pathname, "/login") \/ startsWith(pathname, "/api/auth")
    THEN [by |-> "middleware", kind |-> "next", status |-> 200, location |-> "", clears |-> FALSE]
    ELSE IF ~cookie.has
    THEN [by |-> "middleware", kind |-> "redirect", status |-> 307, location |-> "/login", clears |-> FALSE]
    ELSE IF ~verifyToken(cookie.value, t).ok \/ ~verifyToken(cookie.value, t).authenticated
    THEN [by |-> "middleware", kind |-> "redirect", status |-> 307, location |-> "/login", clears |-> TRUE]
    ELSE [by |-> "middleware", kind |-> "next", status |-> 200, location |-> "", clears |-> FALSE]

\* the answer to a request: a path outside the matcher is served without
\* the middleware
answerTo(pathname, cookie, t) ==
    IF matcher(pathname) THEN middleware(pathname, cookie, t)
    ELSE [by |-> "static", kind |-> "next", status |-> 200, location |-> "", clears |-> FALSE]

\* the cookie the browser sends: the one in its jar, until its max age is over
sentBy(j, t) == IF j.has /\ t < j.expires THEN j ELSE NoCookie

\* cookies sent by other clients: no token, '', a token sealed by the server
\* on day 0 and replayed, a signed token whose payload is not authenticated
ForeignCookies ==
    {[has |-> TRUE, value |-> [kind |-> "garbage", authenticated |-> FALSE, exp |-> 0], expires |-> 0],
     [has |-> TRUE, value |-> NoToken, expires |-> 0],
     [has |-> TRUE, value |-> createToken(0), expires |-> 0],
     [has |-> TRUE, value |-> [kind |-> "jwt", authenticated |-> FALSE, exp |-> MaxNow + 1], expires |-> 0]}

AuthInit ==
    /\ AuthIdle
    /\ text = "" /\ fields = "" /\ data = <<>> /\ pcParse = "idle" /\ rows = <<>> /\ pcPage = "idle"
    /\ detections = <<>> /\ imageType = "full" /\ response = NoResponse /\ pcSingle = "idle"
    /\ images = <<>> /\ batchI = 0 /\ responses = <<>> /\ calls = <<>> /\ allResults = <<>>
    /\ batchResponse = NoBatchResponse /\ pcBatch = "idle"
    /\ rects = <<>> /\ natural = [width |-> 0, height |-> 0] /\ editor = EditorIdle
    /\ combined = NoCombined /\ textBlocks = <<>> /\ parsed = NoParsed /\ pcRegion = "idle"

\* POST /api/auth/login from the browser: 400 without a password, 401 with a
\* wrong one, else the token in a cookie of max age 7 days
Login ==
    /\ \E password \in Passwords :
          IF password = ""
          THEN /\ lastResponse' = [by |-> "login", kind |-> "json", status |-> 400, location |-> "", clears |-> FALSE]
               /\ jar' = jar
          ELSE IF password # AuthPassword
          THEN /\ lastResponse' = [by |-> "login", kind |-> "json", status |-> 401, location |-> "", clears |-> FALSE]
               /\ jar' = jar
          ELSE /\ lastResponse' = [by |-> "login", kind |-> "json", status |-> 200, location |-> "", clears |-> FALSE]
               /\ jar' = [has |-> TRUE, value |-> createToken(now), expires |-> now + CookieMaxAge]
    /\ lastRequest' = [path |-> "/api/auth/login", cookie |-> sentBy(jar, now), at |-> now]
    /\ UNCHANGED now
    /\ UNCHANGED <<parseVars, singleVars, batchVars, regionVars>>

\* POST /api/auth/logout from the browser: the cookie is set to '' with max age 0
Logout ==
    /\ lastRequest' = [path |-> "/api/auth/logout", cookie |-> sentBy(jar, now), at |-> now]
    /\ lastResponse' = [by |-> "logout", kind |-> "json", status |-> 200, location |-> "", clears |-> TRUE]
    /\ jar' = NoCookie
    /\ UNCHANGED now
    /\ UNCHANGED <<parseVars, singleVars, batchVars, regionVars>>

\* a request from the browser, with the cookie of its jar; a response that
\* clears the cookie empties the jar
BrowserRequest ==
    /\ \E pathname \in Paths :
          /\ lastRequest' = [path |-> pathname, cookie |-> sentBy(jar, now), at |-> now]
          /\ lastResponse' = answerTo(pathname, sentBy(jar, now), now)
          /\ jar' = IF answerTo(pathname, sentBy(jar, now), now).clears THEN NoCookie ELSE jar
    /\ UNCHANGED now
    /\ UNCHANGED <<parseVars, singleVars, batchVars, regionVars>>

\* a request from another client, with a cookie of its own making
ForeignRequest ==
    /\ \E pathname \in Paths, cookie \in ForeignCookies \cup {NoCookie} :
          /\ lastRequest' = [path |-> pathname, cookie |-> cookie, at |-> now]
          /\ lastResponse' = answerTo(pathname, cookie, now)
    /\ UNCHANGED <<jar, now>>
    /\ UNCHANGED <<parseVars, singleVars, batchVars, regionVars>>

\* a day passes
Tick ==
    /\ now < MaxNow
    /\ now' = now + 1
    /\ UNCHANGED <<jar, lastRequest, lastResponse>>
    /\ UNCHANGED <<parseVars, singleVars, batchVars, regionVars>>

----------------------------------------------------------------------------
vars == <<parseVars, singleVars, batchVars, regionVars, authVars>>

ParseNext == ParseCorneaData

SpecParse == ParseInit /\ [][ParseNext]_vars

SingleNext == SingleNoText \/ SingleProcessed

SpecSingle == SingleInit /\ [][SingleNext]_vars

BatchNext ==
    BatchNoImages \/ BatchBegin \/ BatchIterate \/ BatchDetectorThrows \/ BatchRespond

SpecBatch == BatchInit /\ [][BatchNext]_vars

PageNext ==
    \/ BatchBegin \/ BatchIterate \/ BatchDetectorThrows \/ BatchRespond
    \/ ProcessResults \/ ProcessFailed

SpecPage == PageInit /\ [][PageNext]_vars

AuthNext == Login \/ Logout \/ BrowserRequest \/ ForeignRequest \/ Tick

SpecAuth == AuthInit /\ [][AuthNext]_vars

\* the OCR route as a whole: a request is a batch (JSON) or a single file (form data)
RouteInit == SingleInit \/ BatchInit

RouteNext == SingleNext \/ BatchNext

SpecRoute == RouteInit /\ [][RouteNext]_vars

EditorNext ==
    \/ handleMouseDown \/ handleMouseMove \/ handleMouseUp
    \/ handleLabelChange \/ handleDeleteRectangle
    \/ handleDragStart \/ handleDrop \/ handleDragEnd

SpecEditor == EditorInit /\ [][EditorNext]_vars

RegionNext ==
    CombineRegions \/ CombineRegionsThrows \/ OcrResponds \/ OcrNotOk \/ ParseRegionResults

SpecRegion == RegionInit /\ [][RegionNext]_vars

----------------------------------------------------------------------------
(* Claims about parseCorneaData.                                           *)

GroupKeys ==
    [radius |-> {"Front_Rh", "Front_Rv", "Front_Rm", "Back_Rh", "Back_Rv", "Back_Rm"},
     k |-> {"Front_K1", "Front_K2", "Front_Km", "Back_K1", "Back_K2", "Back_Km"},
     axis |-> {"Front_Axis", "Front_Astig", "Back_Axis", "Back_Astig"},
     q |-> {"Front_Q-val", "Back_Q-val"},
     rper |-> {"Front_Rper", "Front_Rmin", "Back_Rper", "Back_Rmin"},
     pachy |-> {"Pachy_Center", "Pachy_Apex", "Pachy_Thinnest"},
     ac |-> {"AC_Depth", "Pupil_Dia"}]

Groups == DOMAIN GroupKeys
AllKeys == UNION {GroupKeys[g] : g \in Groups}
KeySet(d) == {d[i].k : i \in 1..Len(d)}

C7_KExample ==
    \A a \in KValues, b \in KValues, c \in KValues, d \in KValues :
        (pcParse = "done" /\ fields = "k" /\ text = KExample(a, b, c, d)) =>
            data = << [k |-> "Front_K1", v |-> a], [k |-> "Front_K2", v |-> b],
                      [k |-> "Front_Km", v |-> Sentinel],
                      [k |-> "Back_K1", v |-> "-" \o c], [k |-> "Back_K2", v |-> "-" \o d],
                      [k |-> "Back_Km", v |-> Sentinel] >>

C7_Witness ==
    /\ pcParse = "done" /\ fields = "k"
    /\ text = "Cornea Front\nK1: 43.50\nK2: 6.1\nCornea Back\nK1: -6.1\nK2: -43.50"
    /\ Get(data, "Back_K1") = "-6.1"

\* first position of "depth" in any letter case, 0 when there is none
FirstDepth(t) ==
    LET hits == {i \in 1..(Len(t) - 4) : toLowerCase(SubSeq(t, i, i + 4)) = "depth"}
    IN IF hits = {} THEN 0 ELSE CHOOSE i \in hits : \A j \in hits : i <= j

\* last position of the run of digits that starts at p
DigitRunEnd(t, p) ==
    CHOOSE q \in p..Len(t) :
        /\ \A j \in p..q : CharAt(t, j) \in Digits
        /\ q = Len(t) \/ CharAt(t, q + 1) \notin Digits

\* p starts a decimal number: digits, a point, digits
StartsDecimal(t, p) ==
    /\ CharAt(t, p) \in Digits
    /\ LET a == DigitRunEnd(t, p)
       IN a + 2 <= Len(t) /\ CharAt(t, a + 1) = "." /\ CharAt(t, a + 2) \in Digits

\* <<from, to>> of the first decimal number after position c, <<0, 0>> when none
FirstDecimalAfter(t, c) ==
    LET starts == {p \in (c + 1)..Len(t) : StartsDecimal(t, p)}
    IN IF starts = {} THEN <<0, 0>>
       ELSE LET p == CHOOSE p \in starts : \A r \in starts : p <= r
            IN <<p, DigitRunEnd(t, DigitRunEnd(t, p) + 2)>>

\* the window of DepthWindow characters that starts at the first "Depth" holds
\* a colon and, after its first colon, a whole decimal number
DepthReadingInWindow(t) ==
    LET d == FirstDepth(t)
        colons == {c \in d..(d + DepthWindow - 1) : c <= Len(t) /\ CharAt(t, c) = ":"}
        c == CHOOSE c \in colons : \A e \in colons : c <= e
        n == FirstDecimalAfter(t, c)
    IN d # 0 /\ colons # {} /\ n[1] # 0 /\ n[2] <= d + DepthWindow - 1

DepthReading(t) ==
    LET d == FirstDepth(t)
        colons == {c \in d..(d + DepthWindow - 1) : c <= Len(t) /\ CharAt(t, c) = ":"}
        c == CHOOSE c \in colons : \A e \in colons : c <= e
        n == FirstDecimalAfter(t, c)
    IN SubSeq(t, n[1], n[2])

RuleMatches(key, t, sec) ==
    LET src == IF SubSeq(key, 1, 6) = "Front_" THEN sec[1]
               ELSE IF SubSeq(key, 1, 5) = "Back_" THEN sec[2] ELSE t
        label == toLowerCase(IF SubSeq(key, 1, 6) = "Front_" THEN SubSeq(key, 7, Len(key))
                             ELSE SubSeq(key, 6, Len(key)))
    IN CASE key \in {"Front_Axis", "Back_Axis"} ->
                Test(src, AxisRe, TRUE) \/ Test(src, DegreeRe, FALSE)
         [] key \in {"Front_Q-val", "Back_Q-val"} -> Test(src, QvalRe, TRUE)
         [] key \in {"Back_K1", "Back_K2", "Back_Km"} -> Test(src, SignedLabelRe(label), TRUE)
         [] key = "Pachy_Center" -> Test(t, PupilCenterRe, TRUE)
         [] key = "Pachy_Apex" -> Test(t, PachyApexRe, TRUE)
         [] key = "Pachy_Thinnest" -> Test(t, ThinnestRe, TRUE)
         [] key = "AC_Depth" ->
                /\ FirstDepth(t) # 0
                /\ \E c \in FirstDepth(t)..(FirstDepth(t) + DepthWindow - 1) :
                      /\ c <= Len(t) /\ CharAt(t, c) = ":"
                      /\ \A e \in FirstDepth(t)..(c - 1) : CharAt(t, e) # ":"
                      /\ Test(SubSeq(t, c + 1, IF FirstDepth(t) + DepthWindow - 1 < Len(t)
                                               THEN FirstDepth(t) + DepthWindow - 1 ELSE Len(t)),
                              DecimalRe, FALSE)
         [] key = "Pupil_Dia" -> Test(t, PupilDiaRe, TRUE) \/ Test(t, PupilDiameterRe, TRUE)
         [] OTHER -> Test(src, LabelRe(label), TRUE)

\* C9: parseCorneaData returns for every text and every requested-fields
\* string; each key of each group that is gated on is present with a non-empty
\* value, which is "-" whenever the key's rule does not match.
C9_SentinelNotAbsent ==
    pcParse = "done" =>
    \A sec \in {sections(text)}, req \in {requestedFieldsOf(fields)} :
    \A g \in Groups : groupOn(req, g) =>
        \A key \in GroupKeys[g] :
            /\ HasKey(data, key)
            /\ Get(data, key) # ""
            /\ ~RuleMatches(key, text, sec) => Get(data, key) = Sentinel

\* a run with one key resolved and another of the same group unresolved
C9_Witness ==
    /\ pcParse = "done" /\ fields = "k, ac, pupil"
    /\ HasKey(data, "Front_K1") /\ Get(data, "Front_K1") # Sentinel
    /\ ~RuleMatches("Front_Km", text, sections(text)) /\ Get(data, "Front_Km") = Sentinel
    /\ ~RuleMatches("AC_Depth", text, sections(text)) /\ Get(data, "AC_Depth") = Sentinel


----------------------------------------------------------------------------
(* Claims about processDetections and the single-file request.            *)

\* C1: for every detector output with at least one non-summary fragment,
\* full-page attribution returns a non-empty text, whatever the fragments'
\* positions and texts and the summary's content.
C1_FullPageNonEmpty ==
    (pcSingle = "done" /\ response.status = 200 /\ imageType = "full" /\ Len(detections) >= 2)
        => response.fullText # ""

NonePasses(dets) ==
    \A i \in 2..Len(dets) : ~inMainData(dets, i) /\ ~inExtendedData(dets, i)

\* C6: in full-page mode, when no non-summary fragment passes the primary or
\* the extended filter and the summary's text is not empty, the returned text
\* is the summary's text.
C6_SummaryFallback ==
    (/\ pcSingle = "done" /\ response.status = 200 /\ imageType = "full"
     /\ NonePasses(detections)
     /\ detections[1].description # "")
        => response.fullText = detections[1].description

\* C6 witness: a full-page answer for a summary with text and two fragments, none kept
C6_Witness ==
    /\ pcSingle = "done" /\ response.status = 200 /\ imageType = "full"
    /\ Len(detections) >= 3
    /\ NonePasses(detections)
    /\ detections[1].description # ""
    /\ \E i \in 2..Len(detections) : detections[i].hasPoly /\ detections[i].description # ""
    /\ response.fullText = detections[1].description

----------------------------------------------------------------------------
(* Claims about the batch request.                                         *)

\* C10: a batch request of n >= 1 images in which every detector call returns
\* is answered with exactly n results, the i-th carrying the i-th image's id,
\* also for n > 16 and whichever images had no text.
C10_ResultsFollowImages ==
    (pcBatch = "done" /\ batchResponse.status = 200) =>
        /\ Len(images) >= 1
        /\ Len(batchResponse.results) = Len(images)
        /\ \A i \in 1..Len(images) : batchResponse.results[i].id = images[i].id

\* C10 witness: more than one detector call, an image without text in each
C10_Witness ==
    /\ pcBatch = "done" /\ batchResponse.status = 200
    /\ Len(images) > BATCH_SIZE
    /\ \E i \in 1..BATCH_SIZE : ~batchResponse.results[i].success
    /\ \E i \in (BATCH_SIZE + 1)..Len(images) : ~batchResponse.results[i].success
    /\ \E i \in 1..Len(images) : batchResponse.results[i].success

----------------------------------------------------------------------------
(* Claims about the region editor.                                         *)

Returned == pcRegion \in {"ocr", "parse", "done"}

Overlap(a, b) == a.xStart < b.xEnd /\ b.xStart < a.xEnd

\* C2: the boundaries combineRegions returns are pairwise non-overlapping
\* half-open x-ranges, one per input region, in the regions' order with the
\* regions' ids.
C2_BoundariesDisjointOrdered ==
    Returned =>
        /\ Len(combined.boundaries) = Len(rects)
        /\ \A k \in 1..Len(rects) : combined.boundaries[k].id = rects[k].id
        /\ \A j, k \in 1..Len(combined.boundaries) :
              j # k => ~Overlap(combined.boundaries[j], combined.boundaries[k])

\* C2 witness: combineRegions has returned for two regions of different widths
C2_Witness ==
    /\ pcRegion = "ocr"
    /\ Len(combined.boundaries) >= 2
    /\ \E j, k \in 1..Len(combined.boundaries) :
          combined.boundaries[j].xEnd - combined.boundaries[j].xStart
              # combined.boundaries[k].xEnd - combined.boundaries[k].xStart

Attributed == pcRegion = "done" /\ Len(parsed.buckets) = Len(combined.boundaries)

\* the buckets holding the block at position b, each as often as it holds it
Placings(b) ==
    {<<k, j>> \in (1..Len(parsed.buckets)) \X (1..MaxBlocks) :
        j <= Len(parsed.buckets[k]) /\ parsed.buckets[k][j] = b}

MeanXIn(block, boundary) ==
    /\ block.hasBox /\ Len(block.boundingBox) > 0
    /\ boundary.xStart * Len(block.boundingBox) <= Sum(block.boundingBox)
    /\ Sum(block.boundingBox) < boundary.xEnd * Len(block.boundingBox)

\* C3: parseRegionResults puts every fragment in at most one bucket: one
\* whose box's mean x lies in a boundary range is put in the bucket of that
\* range and in no other, one whose mean x lies in a gap or outside every
\* range is put in none.
C3_OneBucket ==
    Attributed =>
        \A b \in 1..Len(textBlocks) :
            /\ Cardinality(Placings(b)) <= 1
            /\ \A k \in 1..Len(combined.boundaries) :
                  MeanXIn(textBlocks[b], combined.boundaries[k])
                      => \E j \in 1..MaxBlocks : Placings(b) = {<<k, j>>}
            /\ (/\ textBlocks[b].hasBox /\ Len(textBlocks[b].boundingBox) > 0
                /\ \A k \in 1..Len(combined.boundaries) :
                      ~MeanXIn(textBlocks[b], combined.boundaries[k]))
                  => Placings(b) = {}

\* C3 witness: one fragment in the second range, one over the first range's
\* right edge
C3_Witness ==
    /\ Attributed
    /\ Len(combined.boundaries) >= 2
    /\ \E b \in 1..Len(textBlocks) :
          MeanXIn(textBlocks[b], combined.boundaries[2]) /\ parsed.buckets[2] = <<b>>
    /\ \E b \in 1..Len(textBlocks) :
          /\ textBlocks[b].hasBox
          /\ Sum(textBlocks[b].boundingBox)
                 = combined.boundaries[1].xEnd * Len(textBlocks[b].boundingBox)
          /\ Placings(b) = {}

\* every fragment's box lies inside the range recorded for the region it was read from
BoxesInOrigin ==
    \A b \in 1..Len(textBlocks) :
        /\ textBlocks[b].hasBox /\ Len(textBlocks[b].boundingBox) > 0
        /\ \A v \in 1..Len(textBlocks[b].boundingBox) :
              /\ combined.boundaries[textBlocks[b].origin].xStart <= textBlocks[b].boundingBox[v]
              /\ textBlocks[b].boundingBox[v] < combined.boundaries[textBlocks[b].origin].xEnd

BucketTexts(k) ==
    [j \in 1..Len(parsed.buckets[k]) |-> textBlocks[parsed.buckets[k][j]].description]

OriginTexts(k) ==
    LET from == SelectSeq([b \in 1..Len(textBlocks) |-> b], LAMBDA b : textBlocks[b].origin = k)
    IN [j \in 1..Len(from) |-> textBlocks[from[j]].description]

\* C5: combineRegions, then parseRegionResults: when every fragment's box
\* lies inside the x-range recorded for the region it came from, each
\* region's bucket holds exactly the texts of the fragments from that region.
C5_RoundTrip ==
    (Attributed /\ BoxesInOrigin) =>
        \A k \in 1..Len(combined.boundaries) : BucketTexts(k) = OriginTexts(k)

\* C5 witness: fragments from two regions, each recovered in its own bucket
C5_Witness ==
    /\ Attributed /\ BoxesInOrigin
    /\ Len(combined.boundaries) >= 2
    /\ Len(textBlocks) >= 2
    /\ \E a, b \in 1..Len(textBlocks) : textBlocks[a].origin # textBlocks[b].origin
    /\ \A k \in 1..Len(combined.boundaries) : BucketTexts(k) = OriginTexts(k)

\* C11: each image's text result is attached to that image's own id, also when
\* the detector lists the responses of a call in another order than the
\* requests.
C11_OwnText ==
    (pcBatch = "done" /\ batchResponse.status = 200) =>
        \A i \in 1..Len(images) :
            /\ batchResponse.results[i].id = images[i].id
            /\ batchResponse.results[i].success = (Len(images[i].textAnnotations) > 0)
            /\ Len(images[i].textAnnotations) > 0 =>
                  batchResponse.results[i].fullText
                      = processDetections(images[i].textAnnotations, images[i].imageType).fullText

\* C12: when the detector returns no fragment for an image, no data is made
\* up for it: a single-file request is answered with an error and no text;
\* in a batch the image's entry has success = FALSE, an empty fullText and no
\* textBlocks, and the other images' entries are produced as usual.
C12_NoTextNoData ==
    /\ (pcSingle = "done" /\ Len(detections) = 0) =>
          /\ response.status = 404
          /\ response.fullText = "" /\ response.textBlocks = <<>>
    /\ (pcBatch = "done" /\ batchResponse.status = 200) =>
          \A i \in 1..Len(images) :
              IF Len(responses[i]) = 0
              THEN /\ ~batchResponse.results[i].success
                   /\ batchResponse.results[i].fullText = ""
                   /\ batchResponse.results[i].textBlocks = <<>>
              ELSE /\ batchResponse.results[i].success
                   /\ batchResponse.results[i].fullText
                          = processDetections(responses[i], images[i].imageType).fullText
                   /\ batchResponse.results[i].textBlocks
                          = processDetections(responses[i], images[i].imageType).textBlocks

\* C12 witness: a batch answered with an entry without text next to entries with text
C12_Witness ==
    /\ pcBatch = "done" /\ batchResponse.status = 200
    /\ \E i, j \in 1..Len(images) :
          /\ i < j /\ j <= BATCH_SIZE
          /\ Len(responses[i]) = 0 /\ ~batchResponse.results[i].success
          /\ Len(responses[j]) > 0 /\ batchResponse.results[j].success
          /\ batchResponse.results[j].fullText # ""

\* the regions whose crop has pixels, in input order
NonDegenerateIds ==
    LET keep == SelectSeq([k \in 1..Len(rects) |-> k],
                          LAMBDA k : /\ pixels(rects[k].width, natural.width) > 0
                                     /\ pixels(rects[k].height, natural.height) > 0)
    IN [j \in 1..Len(keep) |-> rects[keep[j]].id]

\* C13: when a region passed to combineRegions would crop to a non-positive
\* width or height, that region is skipped, the other regions are still
\* composited and the boundaries returned are exactly the non-degenerate
\* regions, in input order.
C13_DegenerateSkipped ==
    (pcRegion # "combine" /\ pcRegion # "idle" /\ Len(NonDegenerateIds) < Len(rects)) =>
        /\ pcRegion # "failed"
        /\ [k \in 1..Len(combined.boundaries) |-> combined.boundaries[k].id] = NonDegenerateIds

\* a fraction <<numerator, denominator>> is at least 0, above 0; a + b is at most 1
AtLeastZero(a) == a[1] >= 0
Positive(a) == a[1] > 0
SumAtMostOne(a, b) == a[1] * b[2] + b[1] * a[2] <= a[2] * b[2]

\* C14: whatever mouse, label, delete and drag-and-drop events the editor has
\* handled, every rectangle of its list has x >= 0, y >= 0, width > 0,
\* height > 0, x + width <= 1 and y + height <= 1.
C14_RectanglesInsideUnitSquare ==
    pcRegion = "idle" =>
        \A k \in 1..Len(rects) :
            /\ AtLeastZero(rects[k].x) /\ AtLeastZero(rects[k].y)
            /\ Positive(rects[k].width) /\ Positive(rects[k].height)
            /\ SumAtMostOne(rects[k].x, rects[k].width)
            /\ SumAtMostOne(rects[k].y, rects[k].height)

\* C14 witness: two rectangles drawn, one of them up to the right and bottom
\* edges with the mouse released off the canvas, one relabelled, and the
\* later-drawn one dragged in front of the earlier one.
C14_Witness ==
    /\ pcRegion = "idle" /\ Len(rects) = 2
    /\ rects[1].id = rectId(2) /\ rects[2].id = rectId(1)
    /\ \E k \in 1..2 : rects[k].label = "K1"
    /\ \E k \in 1..2 :
          /\ rects[k].x[1] + rects[k].width[1] = rects[k].x[2]
          /\ rects[k].y[1] + rects[k].height[1] = rects[k].y[2]

\* the canonical key order
CanonicalKeys ==
    <<"Front_Rh", "Front_Rv", "Front_Rm", "Front_K1", "Front_K2", "Front_Km",
      "Front_Axis", "Front_Astig", "Front_Q-val", "Front_Rper", "Front_Rmin",
      "Back_Rh", "Back_Rv", "Back_Rm", "Back_K1", "Back_K2", "Back_Km",
      "Back_Axis", "Back_Astig", "Back_Q-val", "Back_Rper", "Back_Rmin",
      "Pachy_Center", "Pachy_Apex", "Pachy_Thinnest", "AC_Depth", "Pupil_Dia">>

\* ks, a sequence without repetition, is a subsequence of whole
PlaceIn(whole, key) == CHOOSE i \in 1..Len(whole) : whole[i] = key
IsSubsequence(ks, whole) ==
    /\ \A i \in 1..Len(ks) : \E j \in 1..Len(whole) : whole[j] = ks[i]
    /\ \A i \in 1..Len(ks) : \A j \in 1..Len(ks) :
          i < j => PlaceIn(whole, ks[i]) < PlaceIn(whole, ks[j])

\* C15: the keys of the map parseCorneaData returns come in the canonical
\* order: they are a subsequence of the keys an extract-all request gives for
\* the same text, which are the canonical keys in their order.
C15_KeysInCanonicalOrder ==
    pcParse = "done" =>
        LET allKeys == Keys(parseCorneaData(text, "all"))
        IN allKeys = CanonicalKeys /\ IsSubsequence(Keys(data), allKeys)

\* C15 witness: a request for "k, ac, pupil" gives the front and back
\* keratometry keys and then the depth and pupil keys, skipping the rest.
C15_Witness ==
    /\ pcParse = "done" /\ fields = "k, ac, pupil"
    /\ Keys(data) = <<"Front_K1", "Front_K2", "Front_Km", "Back_K1", "Back_K2", "Back_Km",
                      "AC_Depth", "Pupil_Dia">>

\* C16: in full-page mode the returned fragments come in the detector's
\* order: each one stands later in the detector's list than the one before
\* it, so that none is returned twice.
C16_DetectorOrder ==
    (pcSingle = "done" /\ response.status = 200 /\ imageType = "full")
        => \A i \in 1..Len(response.textBlocks) : \A j \in 1..Len(response.textBlocks) :
              i < j => response.textBlocks[i].index < response.textBlocks[j].index

\* no fragment after the summary is in the primary or in the extended set
UnionEmpty == \A i \in 2..Len(detections) : ~inMainData(detections, i) /\ ~inExtendedData(detections, i)

\* C17: in full-page mode, when the union of the primary and extended sets is
\* empty and the detector returned fragments after the summary, the returned
\* list is all of those fragments, unfiltered.
C17_UnfilteredWhenUnionEmpty ==
    (/\ pcSingle = "done" /\ response.status = 200 /\ imageType = "full"
     /\ Len(detections) >= 2 /\ UnionEmpty)
        => /\ Len(response.textBlocks) = Len(detections) - 1
           /\ \A i \in 1..Len(response.textBlocks) : response.textBlocks[i].index = i + 1

\* detections[i] is among the returned fragments
ReturnedAt(i) == \E j \in 1..Len(response.textBlocks) : response.textBlocks[j].index = i

\* the mean vertex x of detections[i] is below pct hundredths of the width
\* the route reports (no mean is below a width of -Infinity)
MeanBelow(i, pct) ==
    /\ response.imageWidth.finite
    /\ 100 * Sum(detections[i].vertices)
          < pct * response.imageWidth.px * Len(detections[i].vertices)

HasKeyword(i) ==
    \E w \in {"depth", "pupil", "chamber", "iop", "pachy", "lens", "dia"} :
        includes(toLowerCase(detections[i].description), w)

\* C18: in full-page mode a fragment with bounding-box vertices is returned
\* exactly when its mean x is below 0.33 of the width, or is from 0.33 up to
\* but not including 0.50 of the width and its lower-cased text has one of
\* the keywords; at 0.50 of the width or beyond it is never returned.
C18_ReturnedIffInColumns ==
    (pcSingle = "done" /\ response.status = 200 /\ imageType = "full")
        => \A i \in 2..Len(detections) :
              (detections[i].hasPoly /\ detections[i].vertices # <<>>)
                  => /\ ReturnedAt(i) <=>
                           \/ MeanBelow(i, 33)
                           \/ ~MeanBelow(i, 33) /\ MeanBelow(i, 50) /\ HasKeyword(i)
                     /\ ~MeanBelow(i, 50) => ~ReturnedAt(i)

\* C18 witness: on a page 100 wide, a keyword fragment exactly on the 0.33
\* line is returned and a fragment without keyword between the lines is not.
C18_Witness ==
    /\ pcSingle = "done" /\ response.status = 200 /\ imageType = "full"
    /\ response.imageWidth = [finite |-> TRUE, px |-> 100]
    /\ Len(detections) = 3
    /\ detections[2].description = "Pupil Dia" /\ detections[2].vertices = <<32, 34, 34, 32>>
    /\ detections[3].description = "K1" /\ detections[3].vertices = <<30, 50, 50, 30>>
    /\ ReturnedAt(2) /\ ~ReturnedAt(3)

\* the summary fragment has a bounding box with vertices
SummaryBoxUsable == detections[1].hasPoly /\ detections[1].vertices # <<>>

LargestOf(xs) == CHOOSE m \in {xs[i] : i \in 1..Len(xs)} : \A i \in 1..Len(xs) : xs[i] <= m

\* C19: the width the thresholds are taken of is the largest vertex x of the
\* summary fragment's box when the box is there, and 1000 whenever it is not
\* usable: vertices absent, or a list of no vertex.
C19_WidthOrDefault ==
    (pcSingle = "done" /\ response.status = 200)
        => response.imageWidth =
              IF SummaryBoxUsable THEN [finite |-> TRUE, px |-> LargestOf(detections[1].vertices)]
              ELSE [finite |-> TRUE, px |-> 1000]

\* the widths of the crops, in pixels of the image
CropWidths == [k \in 1..Len(rects) |-> (rects[k].width[1] * natural.width) \div rects[k].width[2]]

\* C20: in the boundaries combineRegions returns, the first range starts at
\* 0, every following range starts 10 pixels after the end of the one before
\* it, and the last range ends at the width of the composite canvas, the sum
\* of the crops' widths plus 10 for each gap between two crops.
C20_RangesChained ==
    Returned =>
        /\ combined.boundaries[1].xStart = 0
        /\ \A k \in 2..Len(combined.boundaries) :
              combined.boundaries[k].xStart = combined.boundaries[k - 1].xEnd + 10
        /\ combined.boundaries[Len(combined.boundaries)].xEnd = combined.totalWidth
        /\ combined.totalWidth = Sum(CropWidths) + 10 * (Len(rects) - 1)

\* C20 witness: a composite of two crops, the second one starting 10 pixels
\* after the first one ends and ending at the canvas width.
C20_Witness ==
    /\ pcRegion = "ocr" /\ Len(rects) = 2 /\ Len(combined.boundaries) = 2
    /\ combined.boundaries[1].xEnd > 0
    /\ combined.boundaries[2].xStart = combined.boundaries[1].xEnd + 10
    /\ combined.boundaries[2].xEnd > combined.boundaries[2].xStart
    /\ combined.boundaries[2].xEnd = combined.totalWidth

\* the length of the longest prefix of s without white space
WordLength(s) ==
    CHOOSE n \in 0..Len(s) :
        /\ \A i \in 1..n : CharAt(s, i) \notin WhiteSpace
        /\ n = Len(s) \/ CharAt(s, n + 1) \in WhiteSpace

\* the words of s: its longest runs of characters other than white space
RECURSIVE WordsOf(_)
WordsOf(s) ==
    IF s = "" THEN <<>>
    ELSE IF CharAt(s, 1) \in WhiteSpace THEN WordsOf(Tail(s))
    ELSE <<SubSeq(s, 1, WordLength(s))>> \o WordsOf(SubSeq(s, WordLength(s) + 1, Len(s)))

RECURSIVE Spaced(_)
Spaced(ws) ==
    IF ws = <<>> THEN ""
    ELSE IF Len(ws) = 1 THEN ws[1]
    ELSE ws[1] \o " " \o Spaced(Tail(ws))

\* the texts of the fragments whose mean x lies in boundary k, in detector order
AssignedTexts(k) ==
    LET from == SelectSeq([b \in 1..Len(textBlocks) |-> b],
                          LAMBDA b : MeanXIn(textBlocks[b], combined.boundaries[k]))
    IN [j \in 1..Len(from) |-> textBlocks[from[j]].description]

\* C21: the map parseRegionResults returns has one entry per boundary id,
\* and each value is the words of the texts of the fragments assigned to the
\* region, in detector order, a single space between two words and none at
\* the ends, or "-" when there is no word.
C21_RegionValues ==
    Attributed =>
        /\ Len(parsed.finalResults) = Len(combined.boundaries)
        /\ \A k \in 1..Len(combined.boundaries) :
              /\ parsed.finalResults[k].k = combined.boundaries[k].id
              /\ \A j \in 1..Len(combined.boundaries) :
                    parsed.finalResults[j].k = parsed.finalResults[k].k => j = k
              /\ parsed.finalResults[k].v =
                    IF WordsOf(Spaced(AssignedTexts(k))) = <<>> THEN "-"
                    ELSE Spaced(WordsOf(Spaced(AssignedTexts(k))))

\* C21 witness: two regions, one assigned a fragment whose text is a label
\* and a number over a line break, the other a fragment of white space only.
C21_Witness ==
    /\ Attributed /\ Len(combined.boundaries) = 2
    /\ \E k \in 1..2 :
          /\ Len(parsed.buckets[k]) = 1 /\ parsed.finalResults[k].v = "K1 43.5"
          /\ Len(parsed.buckets[3 - k]) = 1 /\ parsed.finalResults[3 - k].v = "-"

\* parseCorneaData splits the lines of t at their midpoint: one heading was
\* found, or both with the back heading not after the front heading
MidpointSplit(t) ==
    /\ frontIndexOf(nonEmptyLines(t)) # -1 \/ backIndexOf(nonEmptyLines(t)) # -1
    /\ ~(/\ frontIndexOf(nonEmptyLines(t)) # -1 /\ backIndexOf(nonEmptyLines(t)) # -1
         /\ backIndexOf(nonEmptyLines(t)) > frontIndexOf(nonEmptyLines(t)))

\* C22: whenever parseCorneaData splits at the midpoint, the front section
\* and the back section are both non-empty, whatever the number of lines.
C22_MidpointBothNonEmpty ==
    (pcParse = "done" /\ MidpointSplit(text))
        => sections(text)[1] # "" /\ sections(text)[2] # ""

\* no line of t is a front heading or a back heading
NoHeading(t) ==
    frontIndexOf(nonEmptyLines(t)) = -1 /\ backIndexOf(nonEmptyLines(t)) = -1

SurfaceFields == {"Rh", "Rv", "Rm", "K1", "K2", "Km", "Axis", "Astig", "Q-val", "Rper", "Rmin"}
KeratometryFields == {"K1", "K2", "Km"}

C24_BackRadiusSigned ==
    (/\ pcParse = "done" /\ HasKey(data, "Back_Rh")
     /\ includes(sections(text)[2], "Rh: -6.10"))
        => Get(data, "Back_Rh") = "-6.10"

\* f gives no keyword: it is made of white space and commas only
NoKeyword(f) == \A i \in 1..Len(f) : CharAt(f, i) \in WhiteSpace \cup {","}

\* C25: parseCorneaData extracts every group, so that every canonical key is
\* there, for every requested-fields string that gives no keyword: the empty
\* string, and strings of spaces and commas only.
C25_ExtractAllWithoutKeyword ==
    (pcParse = "done" /\ NoKeyword(fields)) => Keys(data) = CanonicalKeys

\* the group each advertised keyword names
KeywordGroup ==
    [k |-> "k", ac |-> "ac", pupil |-> "ac", radius |-> "radius", axis |-> "axis",
     astig |-> "axis", q |-> "q", rper |-> "rper", rmin |-> "rper", pachy |-> "pachy"]

\* C26: a requested-fields string that is one advertised keyword gives the
\* keys of the group the keyword names and no key of another group: "pachy"
\* gives the Pachy_* keys only.
C26_OneKeywordOneGroup ==
    (pcParse = "done" /\ fields \in DOMAIN KeywordGroup)
        => KeySet(data) = GroupKeys[KeywordGroup[fields]]

\* the requests of all calls, call after call
RECURSIVE Flatten(_)
Flatten(cs) == IF cs = <<>> THEN <<>> ELSE Head(cs) \o Flatten(Tail(cs))

\* C27: for a batch of n images the server makes ceil(n/16) detector calls
\* one after another, none of more than 16 images, and the calls taken
\* together carry every image once, in input order.
C27_CallsOfSixteen ==
    /\ \A c \in 1..Len(calls) : Len(calls[c]) <= 16
    /\ (pcBatch = "done" /\ batchResponse.status = 200) =>
          /\ Len(calls) = (Len(images) + 15) \div 16
          /\ Flatten(calls) = [i \in 1..Len(images) |-> images[i].id]
          /\ \A i \in 1..Len(images) : \A j \in 1..Len(images) :
                images[i].id = images[j].id => i = j

\* C27 witness: seventeen images went out in two calls, sixteen and one.
C27_Witness ==
    /\ pcBatch = "done" /\ batchResponse.status = 200
    /\ Len(images) = 17 /\ Len(calls) = 2
    /\ Len(calls[1]) = 16 /\ calls[2] = <<images[17].id>>

\* C28: the result processOCR records for a file has every rectangle's id
\* as a key, in the rectangles' order; when the OCR request failed every one
\* of them holds "-".
C28_ResultKeyedById ==
    pcRegion = "done" =>
        /\ Len(parsed.resultData) = Len(rects)
        /\ \A k \in 1..Len(rects) : parsed.resultData[k].k = rects[k].id

\* C29: within one batch run of the v1 page every row has the key sequence
\* of the first row, from which the table and CSV headers are taken, the
\* rows of images whose OCR failed too.
C29_RowsShareKeys ==
    pcPage = "shown" =>
        \A r \in 1..Len(rows) : Keys(rows[r].extractedData) = Keys(rows[1].extractedData)

\* the last request asked the middleware for a path that starts neither
\* with /login nor with /api/auth
GuardedRequest ==
    /\ lastResponse.by = "middleware"
    /\ ~startsWith(lastRequest.path, "/login") /\ ~startsWith(lastRequest.path, "/api/auth")

\* the last request carried a cookie whose token was signed by the server,
\* had not expired when the request was made, and says authenticated
CarriedGoodToken ==
    /\ lastRequest.cookie.has
    /\ lastRequest.cookie.value.kind = "jwt"
    /\ lastRequest.at < lastRequest.cookie.value.exp
    /\ lastRequest.cookie.value.authenticated

\* C30: whatever logins, logouts and requests came before, the middleware
\* lets a request for a path outside /login and /api/auth pass only when it
\* carries a cookie whose token verifies and says authenticated; any other
\* such request is redirected to /login, and when it carried a cookie the
\* redirect clears it.
C30_OnlyVerifiedPass ==
    GuardedRequest =>
        /\ lastResponse.kind = "next" <=> CarriedGoodToken
        /\ ~CarriedGoodToken => lastResponse.kind = "redirect" /\ lastResponse.location = "/login"
        /\ (lastRequest.cookie.has /\ ~CarriedGoodToken) => lastResponse.clears
        /\ CarriedGoodToken => ~lastResponse.clears

\* C30 witness: after a login, with the browser holding its cookie, a
\* request for /api/ocr that replays a token expired since day 7 is
\* redirected to /login and told to clear the cookie.
C30_Witness ==
    /\ GuardedRequest /\ lastRequest.path = "/api/ocr"
    /\ jar.has
    /\ lastRequest.cookie.has /\ lastRequest.cookie.value.kind = "jwt"
    /\ lastRequest.cookie.value.authenticated /\ lastRequest.at >= lastRequest.cookie.value.exp
    /\ lastResponse.kind = "redirect" /\ lastResponse.clears

====
